---- MODULE Spec2Model ----
(***************************************************************************)
(* A model of the persona cognition engine of generative_agents            *)
(* (simulation_server): the grid pathfinder, the cognition retry loop, the *)
(* associative memory store, the reflection trigger, the reaction-schedule *)
(* splice and the orchestrator's step.  Each part has its own              *)
(* specification over the shared variables; the variables of the other     *)
(* parts stay at their initial values.                                     *)
(***************************************************************************)
EXTENDS Integers, Sequences, FiniteSets, TLC

VARIABLES
    \* --- maze / pathfinder (maze.Maze, Maze.Pathfind)
    maze,        \* [height, width, collisionInfo]
    pfStart,     \* TilePos argument start
    pfEnd,       \* TilePos argument end
    pfResult,    \* what the last Pathfind call produced: [kind, path]
    \* --- cognition client (openai.Client.doRequestWithRetry)
    llmSeq,      \* Client.llmSeq
    call,        \* the call in progress: [pc, promptText, hasValidation, attempt, log, lastErr, result]
    \* --- associative store (memory.Associative)
    store,       \* [nodes, events, thoughts, chats, kwToEvents, kwToThoughts, kwToChats, kwStrengthEvents, kwStrengthThoughts]
    \* --- one persona's reflection counters and Move phases (agent.Persona)
    refl,        \* [pc, CurrentReflectionTrigger, ReflectionTrigger, ReflectionElements, ran, before]
    \* --- one persona's day (agent.State schedule fields) and its reactions
    day,         \* [p: the persona's State, lastOp, sumBefore, plan: the plan phase of the last Move, ops]
    \* --- the orchestrator (server.Server) and its personas
    srv,         \* [pc, Step, personas, PersonaPositions, tileEvents, movements, pending, mover, chatted]
    \* --- a persona's spatial memory (memory.Spatial)
    spatial,     \* [Worlds, registered, outcome]
    \* --- one use of the text form of a memory.Path
    txt,         \* [op, ...]: what was formatted and parsed, and what came back
    \* --- one retrieval for one focal point (Persona.retrieveForFocalPoints)
    ret,         \* [op, ...]: the candidates, the weights and what was returned
    \* --- one choice of a target tile (Persona.execute)
    exe,         \* [op, ...]: the maze, the position, the candidates and the choice
    \* --- one persona's perception of the tiles around it (Persona.percieve)
    per,         \* [op, state, tileEvents, spatialMemory, passes, pass: the last call of percieve]
    \* --- one persona's long-term planning over several days (Persona.Move, plan)
    ltp,         \* [op, p, world, moves, planned, last: the plan phase of the last Move]
    \* --- one conversation (Persona.iterativeGenerateConversation)
    conv,        \* [op, p, target, i, turn, chat, ended, length, duration]
    \* --- a persona's retrieval weights in its state and in scratch.json
    wts,         \* [op, scratch: the file, state: the State, loadedFrom, savedFrom]
    \* --- one persona walking through a maze (Persona.execute under ExecuteStep)
    walk,        \* [op, maze, s: Position, PlannedPath, ActivityPathSet, ActivityAddress, moves, last: the last Move]
    \* --- PART 17: the chat cooldown of one persona
    cool         \* one persona's steps, its chats with Bob and its ChattingWithBuffer

vars == <<maze, pfStart, pfEnd, pfResult, llmSeq, call, store, refl, day, srv, spatial, txt, ret, exe, per, ltp, conv, wts, walk, cool>>

otherVars == <<spatial, txt, ret, exe, per, ltp, conv, wts, walk, cool>>

pathVars == <<maze, pfStart, pfEnd, pfResult>>

retryVars == <<llmSeq, call>>

memoryVars == <<store, refl>>

(***************************************************************************)
(* Small helpers on sequences and sets.                                    *)
(***************************************************************************)
RECURSIVE SumSeq(_)
SumSeq(s) == IF s = <<>> THEN 0 ELSE Head(s) + SumSeq(Tail(s))

Reverse(s) == [i \in 1..Len(s) |-> s[Len(s) + 1 - i]]

Last(s) == s[Len(s)]

SeqRange(s) == {s[i] : i \in 1..Len(s)}

Prepend(x, s) == <<x>> \o s

\* The value f itself, with its table of values computed when it is built
\* (the comparison makes the model checker tabulate the function).
Materialize(f) == IF f = f THEN f ELSE f

(***************************************************************************)
(* PART 1.  The pathfinder: Maze.Pathfind (maze/path_finder.go).           *)
(***************************************************************************)

\* Bounds of the small mazes: sides up to MaxSide, at most MaxCells tiles, at
\* most MaxWalls of them collision tiles.
MaxSide == 3
MaxCells == 9
MaxWalls == 2

\* loopMax := 150, the cap on wavefront iterations.
loopMax == 150

\* One-row mazes without walls, long enough to exceed the wavefront cap.
CorridorLens == {loopMax + 1, loopMax + 2}

Cells(h, w) == (0..(h - 1)) \X (0..(w - 1))

TilePos(x, y) == [X |-> x, Y |-> y]

\* The tiles of a maze, as TilePos values.
Tiles(m) == {TilePos(c[2], c[1]) : c \in Cells(m.height, m.width)}

\* The collision layouts of an h by w grid.
Layouts(h, w) ==
    {[c \in Cells(h, w) |-> c \in walls] :
        walls \in {ws \in SUBSET Cells(h, w) : Cardinality(ws) <= MaxWalls}}

\* The mazes Pathfind is run on: every such layout of every small grid, and
\* the free corridors.
SmallMazes ==
    UNION {
        {[height |-> h, width |-> w, collisionInfo |-> c] : c \in Layouts(h, w)} :
        <<h, w>> \in {hw \in (1..MaxSide) \X (1..MaxSide) : hw[1] * hw[2] <= MaxCells}}

CorridorMazes ==
    {[height |-> 1, width |-> n, collisionInfo |-> [c \in Cells(1, n) |-> FALSE]] :
        n \in CorridorLens}

\* A makeStep that forgets the collision test: the wavefront crosses walls.
makeStepThroughWalls(m, d, k) ==
    Materialize(
        [c \in DOMAIN d |->
            IF /\ d[c] = 0
               /\ \/ (c[1] + 1 < m.height /\ d[<<c[1] + 1, c[2]>>] = k)
                  \/ (c[2] + 1 < m.width /\ d[<<c[1], c[2] + 1>>] = k)
                  \/ (c[1] > 0 /\ d[<<c[1] - 1, c[2]>>] = k)
                  \/ (c[2] > 0 /\ d[<<c[1], c[2] - 1>>] = k)
            THEN k + 1
            ELSE d[c]])

\* makeStep: every cell equal to k gives k+1 to each 4-neighbour that is
\* still 0 and is not a collision tile.  The scan order does not matter: a
\* cell written in this pass holds k+1, which is neither k (a source) nor 0
\* (a target).
makeStep(m, d, k) ==
    Materialize(
        [c \in DOMAIN d |->
            IF /\ d[c] = 0
               /\ ~m.collisionInfo[c]
               /\ \/ (c[1] + 1 < m.height /\ d[<<c[1] + 1, c[2]>>] = k)
                  \/ (c[2] + 1 < m.width /\ d[<<c[1], c[2] + 1>>] = k)
                  \/ (c[1] > 0 /\ d[<<c[1] - 1, c[2]>>] = k)
                  \/ (c[2] > 0 /\ d[<<c[1], c[2] - 1>>] = k)
            THEN k + 1
            ELSE d[c]])

\* One pass over the loop `for distMaze[end.Y][end.X] == 0 && loopMax > 0
\* { k += 1; makeStep(distMaze, k); loopMax -= 1 }`: the body when the
\* condition holds, nothing once it is false (it stays false from then on).
waveBody(m, end, w) ==
    IF w.d[<<end.Y, end.X>>] = 0 /\ w.left > 0
    THEN [d |-> makeStep(m, w.d, w.k + 1), k |-> w.k + 1, left |-> w.left - 1]
    ELSE w

\* n passes of the wavefront loop, by halving; with loopMax at 0 or the end
\* tile numbered the loop has ended.
RECURSIVE WaveLoop(_, _, _, _)
WaveLoop(m, end, w, n) ==
    IF n = 0 THEN w
    ELSE IF n = 1 THEN waveBody(m, end, w)
    ELSE LET half == WaveLoop(m, end, w, n \div 2)
         IN  IF half.left = 0 \/ half.d[<<end.Y, end.X>>] # 0 THEN half
             ELSE WaveLoop(m, end, half, n - (n \div 2))

\* The distance grid after the wavefront loop: start holds 1, k := 0,
\* loopMax := 150; the loop ends within loopMax passes.
distMaze(m, start, end) ==
    WaveLoop(m, end,
             [d |-> [c \in Cells(m.height, m.width) |->
                        IF c = <<start.Y, start.X>> THEN 1 ELSE 0],
              k |-> 0, left |-> loopMax],
             loopMax).d

\* How many passes the wavefront loop made: loopMax started at 150 and is
\* lowered by one in every pass.
wavePasses(m, start, end) ==
    loopMax - WaveLoop(m, end,
                       [d |-> [c \in Cells(m.height, m.width) |->
                                  IF c = <<start.Y, start.X>> THEN 1 ELSE 0],
                        k |-> 0, left |-> loopMax],
                       loopMax).left

\* A walk back without the last branch (east): with k-1 only to the east
\* nothing changes in a pass.
walkBodyWithoutEast(m, d, w) ==
    IF w.k <= 1 \/ w.kind = "hang" THEN w
    ELSE IF w.i > 0 /\ d[<<w.i - 1, w.j>>] = w.k - 1
        THEN [w EXCEPT !.i = w.i - 1, !.k = w.k - 1,
                       !.path = Append(w.path, TilePos(w.j, w.i - 1))]
    ELSE IF w.j > 0 /\ d[<<w.i, w.j - 1>>] = w.k - 1
        THEN [w EXCEPT !.j = w.j - 1, !.k = w.k - 1,
                       !.path = Append(w.path, TilePos(w.j - 1, w.i))]
    ELSE IF w.i < m.height - 1 /\ d[<<w.i + 1, w.j>>] = w.k - 1
        THEN [w EXCEPT !.i = w.i + 1, !.k = w.k - 1,
                       !.path = Append(w.path, TilePos(w.j, w.i + 1))]
    ELSE [w EXCEPT !.kind = "hang"]

\* A walk back that tries west before north (then south, then east).
walkBodyWestFirst(m, d, w) ==
    IF w.k <= 1 \/ w.kind = "hang" THEN w
    ELSE IF w.j > 0 /\ d[<<w.i, w.j - 1>>] = w.k - 1
        THEN [w EXCEPT !.j = w.j - 1, !.k = w.k - 1,
                       !.path = Append(w.path, TilePos(w.j - 1, w.i))]
    ELSE IF w.i > 0 /\ d[<<w.i - 1, w.j>>] = w.k - 1
        THEN [w EXCEPT !.i = w.i - 1, !.k = w.k - 1,
                       !.path = Append(w.path, TilePos(w.j, w.i - 1))]
    ELSE IF w.i < m.height - 1 /\ d[<<w.i + 1, w.j>>] = w.k - 1
        THEN [w EXCEPT !.i = w.i + 1, !.k = w.k - 1,
                       !.path = Append(w.path, TilePos(w.j, w.i + 1))]
    ELSE IF w.j < m.width - 1 /\ d[<<w.i, w.j + 1>>] = w.k - 1
        THEN [w EXCEPT !.j = w.j + 1, !.k = w.k - 1,
                       !.path = Append(w.path, TilePos(w.j + 1, w.i))]
    ELSE [w EXCEPT !.kind = "hang"]

\* One pass over `for k > 1 { north, else west, else south, else east }`, the
\* walk from the end tile back to the start.  When no neighbour holds k-1
\* the Go loop changes nothing and never ends: kind "hang".
walkBody(m, d, w) ==
    IF w.k <= 1 \/ w.kind = "hang" THEN w
    ELSE IF w.i > 0 /\ d[<<w.i - 1, w.j>>] = w.k - 1
        THEN [w EXCEPT !.i = w.i - 1, !.k = w.k - 1,
                       !.path = Append(w.path, TilePos(w.j, w.i - 1))]
    ELSE IF w.j > 0 /\ d[<<w.i, w.j - 1>>] = w.k - 1
        THEN [w EXCEPT !.j = w.j - 1, !.k = w.k - 1,
                       !.path = Append(w.path, TilePos(w.j - 1, w.i))]
    ELSE IF w.i < m.height - 1 /\ d[<<w.i + 1, w.j>>] = w.k - 1
        THEN [w EXCEPT !.i = w.i + 1, !.k = w.k - 1,
                       !.path = Append(w.path, TilePos(w.j, w.i + 1))]
    ELSE IF w.j < m.width - 1 /\ d[<<w.i, w.j + 1>>] = w.k - 1
        THEN [w EXCEPT !.j = w.j + 1, !.k = w.k - 1,
                       !.path = Append(w.path, TilePos(w.j + 1, w.i))]
    ELSE [w EXCEPT !.kind = "hang"]

\* n passes of the walk-back loop, by halving; with k at 1 the loop has
\* ended.
RECURSIVE WalkBack(_, _, _, _)
WalkBack(m, d, w, n) ==
    IF n = 0 THEN w
    ELSE IF n = 1 THEN walkBody(m, d, w)
    ELSE LET half == WalkBack(m, d, w, n \div 2)
         IN  IF half.k <= 1 THEN half
             ELSE WalkBack(m, d, half, n - (n \div 2))

\* A Pathfind that starts the walk with an empty path (path := make(..., 0, k)
\* without the end tile) and appends only the tiles it walks to.
PathfindWithoutEnd(m, start, end) ==
    LET d == distMaze(m, start, end)
        k == d[<<end.Y, end.X>>]
        w == WalkBack(m, d,
                      [i |-> end.Y, j |-> end.X, k |-> k, path |-> <<>>,
                       kind |-> "path"],
                      k)
    IN  [kind |-> w.kind, path |-> Reverse(w.path)]

\* Maze.Pathfind(start, end): the Go function has one result, the path; it
\* has no error result.  i, j := end.Y, end.X; k = distMaze[i][j];
\* path := [end]; every pass of the walk lowers k by one, so k passes end it;
\* slices.Reverse(path).
Pathfind(m, start, end) ==
    LET d == distMaze(m, start, end)
        k == d[<<end.Y, end.X>>]
        w == WalkBack(m, d,
                      [i |-> end.Y, j |-> end.X, k |-> k, path |-> <<end>>,
                       kind |-> "path"],
                      k)
    IN  [kind |-> w.kind, path |-> Reverse(w.path)]

NoCall == [kind |-> "none", path |-> <<>>]

\* makeMaze of the pathfinder's tests: 8 rows of 13 tiles; row i is
\* collisionInfo[i], 1 for a '#' (collision) tile and 0 for a ' ' tile.
FixtureRows ==
    << <<1, 1, 1, 1, 1, 1, 1, 1, 1, 1, 1, 1, 1>>,
       <<0, 0, 1, 0, 0, 0, 0, 0, 1, 0, 0, 0, 1>>,
       <<1, 0, 1, 0, 0, 1, 1, 0, 0, 0, 1, 0, 1>>,
       <<1, 0, 1, 0, 0, 1, 1, 0, 1, 0, 1, 0, 1>>,
       <<1, 0, 0, 0, 0, 0, 0, 0, 1, 0, 0, 0, 1>>,
       <<1, 1, 1, 0, 1, 0, 1, 1, 1, 0, 1, 0, 1>>,
       <<1, 0, 0, 0, 0, 0, 0, 0, 0, 0, 1, 0, 0>>,
       <<1, 1, 1, 1, 1, 1, 1, 1, 1, 1, 1, 1, 1>> >>

FixtureMaze ==
    [height |-> Len(FixtureRows), width |-> Len(FixtureRows[1]),
     collisionInfo |->
        [c \in Cells(Len(FixtureRows), Len(FixtureRows[1])) |->
            FixtureRows[c[1] + 1][c[2] + 1] = 1]]

\* The queries the tests make on it: the same collision tile twice, and from
\* the opening on the west side to the opening on the east side (and back).
FixtureQueries ==
    { <<TilePos(1, 0), TilePos(1, 0)>>,
      <<TilePos(0, 1), TilePos(12, 6)>>,
      <<TilePos(12, 6), TilePos(0, 1)>> }

InitPath ==
    /\ maze \in SmallMazes \cup CorridorMazes \cup {FixtureMaze}
    /\ pfStart \in IF maze \in CorridorMazes THEN {TilePos(0, 0)}
                   ELSE IF maze = FixtureMaze THEN {q[1] : q \in FixtureQueries}
                   ELSE Tiles(maze)
    /\ pfEnd \in IF maze \in CorridorMazes
                 THEN {TilePos(maze.width - 1, 0), TilePos(loopMax - 1, 0), TilePos(loopMax, 0)}
                 ELSE IF maze = FixtureMaze THEN {q[2] : q \in {r \in FixtureQueries : r[1] = pfStart}}
                 ELSE Tiles(maze)
    /\ pfResult = NoCall

\* One call m.Pathfind(start, end).
DoPathfind ==
    /\ pfResult.kind = "none"
    /\ pfResult' = Pathfind(maze, pfStart, pfEnd)
    /\ UNCHANGED <<maze, pfStart, pfEnd, retryVars, memoryVars, day, srv, otherVars>>

(***************************************************************************)
(* PART 2.  The cognition client's retry loop: Client.doRequestWithRetry   *)
(* (llm/openai/types.go).                                                  *)
(***************************************************************************)

\* maxRetries: 5 in New; no option changes it.
maxRetries == 5

\* How many cognition calls one run of the model makes.
MaxCalls == 2

\* The rendered prompt texts (prompt.template.Execute output).
PromptTexts == {"promptA", "promptB"}

\* What one request can come back with: the transport or the API fails
\* (Responses.New returns an error), the output text is not the JSON asked
\* for (json.Unmarshal fails), it decodes but the caller's validation would
\* reject it, or it decodes and is acceptable.
Responses == {"transport", "badjson", "invalid", "valid"}

NoCallYet ==
    [pc |-> "idle", promptText |-> "", hasValidation |-> FALSE, attempt |-> 0,
     log |-> <<>>, lastErr |-> "", result |-> ""]

\* Client.doRequest: the error it returns, "" for none.  On every error the
\* *Response it returns is nil.
doRequest(resp) ==
    IF resp = "transport" THEN [resp |-> "nil", err |-> "could not execute prompt"]
    ELSE IF resp = "badjson" THEN [resp |-> "nil", err |-> "could not unmarshal json"]
    ELSE [resp |-> "resp", err |-> ""]

\* isJSONUnmarshalError: errors.As finds the json error wrapped by doRequest.
isJSONUnmarshalError(err) == err = "could not unmarshal json"

\* An iteration that treats every error alike: a transport error is retried
\* like a validation failure.
AttemptStepRetryAll(c, resp) ==
    IF doRequest(resp).err # "" \/ (c.hasValidation /\ resp = "invalid")
    THEN [c EXCEPT !.log = Append(c.log, [prompt |-> c.promptText, resp |-> resp]),
                   !.lastErr = doRequest(resp).err, !.attempt = c.attempt + 1]
    ELSE [c EXCEPT !.pc = "returned", !.result = "ok",
                   !.log = Append(c.log, [prompt |-> c.promptText, resp |-> resp])]

\* One iteration of `for attempt := 0; attempt < c.maxRetries; attempt++`.
\* On a JSON error the loop means to `continue`, but the arguments of its
\* log.Warn call evaluate resp.OutputText() on the nil *Response that
\* doRequest returned with the error: a nil pointer dereference, which
\* panics before `continue` is reached.
AttemptStep(c, resp) ==
    LET r == doRequest(resp)
        sent == Append(c.log, [prompt |-> c.promptText, resp |-> resp])
    IN  IF r.err # ""
        THEN IF isJSONUnmarshalError(r.err)
             THEN IF r.resp = "nil"
                  THEN [c EXCEPT !.pc = "panicked", !.log = sent, !.lastErr = r.err,
                                 !.result = "nil pointer dereference"]
                  ELSE [c EXCEPT !.log = sent, !.lastErr = r.err,
                                 !.attempt = c.attempt + 1]
             ELSE [c EXCEPT !.pc = "returned", !.log = sent, !.lastErr = r.err,
                            !.result = r.err]
        ELSE IF c.hasValidation /\ resp = "invalid"
             THEN [c EXCEPT !.log = sent, !.lastErr = "validation",
                            !.attempt = c.attempt + 1]
             ELSE [c EXCEPT !.pc = "returned", !.log = sent, !.result = "ok"]

\* The return after the loop: "failed after %d retries: %w" with lastErr.
ExhaustStep(c) ==
    [c EXCEPT !.pc = "returned", !.result = "failed after retries: " \o c.lastErr]

\* doRequestWithRetry up to the loop: render the prompt, take an id.
StartCall ==
    /\ call.pc \in {"idle", "returned"}
    /\ llmSeq < MaxCalls
    /\ \E text \in PromptTexts, v \in BOOLEAN :
          /\ llmSeq' = llmSeq + 1
          /\ call' = [NoCallYet EXCEPT !.pc = "running", !.promptText = text,
                                       !.hasValidation = v]
    /\ UNCHANGED <<pathVars, memoryVars, day, srv, otherVars>>

\* The prompt template fails to render: the call returns before any request.
StartCallTemplateError ==
    /\ call.pc \in {"idle", "returned"}
    /\ llmSeq < MaxCalls
    /\ call' = [NoCallYet EXCEPT !.pc = "returned",
                                 !.result = "could not execute prompt template"]
    /\ UNCHANGED <<llmSeq, pathVars, memoryVars, day, srv, otherVars>>

Attempt ==
    /\ call.pc = "running"
    /\ call.attempt < maxRetries
    /\ \E resp \in Responses : call' = AttemptStep(call, resp)
    /\ UNCHANGED <<llmSeq, pathVars, memoryVars, day, srv, otherVars>>

Exhaust ==
    /\ call.pc = "running"
    /\ ~(call.attempt < maxRetries)
    /\ call' = ExhaustStep(call)
    /\ UNCHANGED <<llmSeq, pathVars, memoryVars, day, srv, otherVars>>

(***************************************************************************)
(* PART 3.  The associative memory store: memory.Associative               *)
(* (memory/path.go, second file of the package).                           *)
(***************************************************************************)

\* How many nodes the model adds to one store.
MaxNodes == 3

\* Subject/predicate/object triples given to Add*: the idle triple, a chat
\* triple and an ordinary one.
SPOs ==
    {[Subject |-> "Bob", Predicate |-> "is", Object |-> "idle"],
     [Subject |-> "Bob", Predicate |-> "chat with", Object |-> "Ann"],
     [Subject |-> "bed", Predicate |-> "is", Object |-> "used"]}

\* Keyword lists given to Add*.
KeywordLists == {<<"Bob", "idle">>, <<"plan">>}

\* strings.ToLower on the strings of the model.
ToLower(s) ==
    CASE s = "Bob" -> "bob"
      [] s = "Ann" -> "ann"
      [] OTHER -> s

\* make([]ConceptNode, 1, ...): the zero ConceptNode kept at index 0.
ZeroNode ==
    [Id |-> 0, NodeCount |-> 0, TypeCount |-> 0, Type |-> "invalid", Depth |-> 0,
     Subject |-> "", Predicate |-> "", Object |-> "", Importance |-> 0,
     Keywords |-> <<>>, Evidence |-> <<>>]

\* NewAssociative.  nodes[i + 1] here is store.nodes[i] in Go.
NewAssociative ==
    [nodes |-> <<ZeroNode>>, events |-> <<>>, thoughts |-> <<>>, chats |-> <<>>,
     kwToEvents |-> <<>>, kwToThoughts |-> <<>>, kwToChats |-> <<>>,
     kwStrengthEvents |-> <<>>, kwStrengthThoughts |-> <<>>]

\* Go maps as functions on the keys set so far.
MapGet(m, k, default) == IF k \in DOMAIN m THEN m[k] ELSE default

MapPut(m, k, v) == [x \in DOMAIN m \cup {k} |-> IF x = k THEN v ELSE m[x]]

\* for _, kw := range keywords { kwTo[kw] = append([]NodeId{id}, kwTo[kw]...) }
RECURSIVE IndexKeywords(_, _, _)
IndexKeywords(kwTo, kws, id) ==
    IF kws = <<>> THEN kwTo
    ELSE IndexKeywords(MapPut(kwTo, Head(kws), Prepend(id, MapGet(kwTo, Head(kws), <<>>))),
                       Tail(kws), id)

\* for _, kw := range keywords { kwStrength[kw] += 1 }
RECURSIVE CountKeywords(_, _)
CountKeywords(strength, kws) ==
    IF kws = <<>> THEN strength
    ELSE CountKeywords(MapPut(strength, Head(kws), MapGet(strength, Head(kws), 0) + 1),
                       Tail(kws))

\* if spo.Predicate != "is" && spo.Object != "idle": the keyword strengths
\* are counted.
CountsStrength(spo) == spo.Predicate # "is" /\ spo.Object # "idle"

\* The keywords as stored: the slice is lower-cased in place, and the node
\* shares it.
LowerAll(kws) == [i \in 1..Len(kws) |-> ToLower(kws[i])]

\* The deepest evidence node (AddThought).
RECURSIVE MaxDepth(_, _)
MaxDepth(nodes, evidence) ==
    IF evidence = <<>> THEN 0
    ELSE LET d == nodes[Head(evidence) + 1].Depth
             r == MaxDepth(nodes, Tail(evidence))
         IN  IF d > r THEN d ELSE r

\* An id counted from the nodes added, forgetting the slot kept at index 0.
NextNodeIdFromZero(st) == Len(st.nodes) - 1

\* nodeId := NodeId(len(store.nodes))
NextNodeId(st) == Len(st.nodes)

NewNode(st, type, typeCount, depth, spo, keywords, importance, evidence) ==
    [Id |-> NextNodeId(st), NodeCount |-> Len(st.nodes), TypeCount |-> typeCount,
     Type |-> type, Depth |-> depth,
     Subject |-> spo.Subject, Predicate |-> spo.Predicate, Object |-> spo.Object,
     Importance |-> importance,
     Keywords |-> LowerAll(keywords), Evidence |-> evidence]

\* An AddEvent that puts the new id at the end of the events list.
AddEventOldestFirst(st, spo, keywords, importance, evidence) ==
    [st EXCEPT
        !.nodes = Append(st.nodes,
                         NewNode(st, "event", Len(st.events), 0, spo, keywords,
                                 importance, evidence)),
        !.events = Append(st.events, NextNodeId(st)),
        !.kwToEvents = IndexKeywords(st.kwToEvents, LowerAll(keywords), NextNodeId(st))]

\* Associative.AddEvent
AddEvent(st, spo, keywords, importance, evidence) ==
    LET node == NewNode(st, "event", Len(st.events), 0, spo, keywords, importance, evidence)
    IN  [st EXCEPT
            !.nodes = Append(st.nodes, node),
            !.events = Prepend(node.Id, st.events),
            !.kwToEvents = IndexKeywords(st.kwToEvents, node.Keywords, node.Id),
            !.kwStrengthEvents =
                IF CountsStrength(spo)
                THEN CountKeywords(st.kwStrengthEvents, node.Keywords)
                ELSE st.kwStrengthEvents]

\* Associative.AddThought
AddThought(st, spo, keywords, importance, evidence) ==
    LET node == NewNode(st, "thought", Len(st.thoughts),
                        1 + MaxDepth(st.nodes, evidence), spo, keywords, importance, evidence)
    IN  [st EXCEPT
            !.nodes = Append(st.nodes, node),
            !.thoughts = Prepend(node.Id, st.thoughts),
            !.kwToThoughts = IndexKeywords(st.kwToThoughts, node.Keywords, node.Id),
            !.kwStrengthThoughts =
                IF CountsStrength(spo)
                THEN CountKeywords(st.kwStrengthThoughts, node.Keywords)
                ELSE st.kwStrengthThoughts]

\* Associative.AddChat: typeCount := len(store.thoughts); no evidence.
AddChat(st, spo, keywords, importance) ==
    LET node == NewNode(st, "chat", Len(st.thoughts), 0, spo, keywords, importance, <<>>)
    IN  [st EXCEPT
            !.nodes = Append(st.nodes, node),
            !.chats = Prepend(node.Id, st.chats),
            !.kwToChats = IndexKeywords(st.kwToChats, node.Keywords, node.Id)]

\* Associative.GetLatestEventIds / GetLatestThoughtIds
GetLatestEventIds(st) == st.events

GetLatestThoughtIds(st) == st.thoughts

\* The ids collected from a keyword map for each of the three strings, looked
\* up one by one: `if ids, ok := kwTo[i]; ok { for ... ret[id] = struct{}{} }`.
CollectIds(kwTo, subject, predicate, object) ==
    UNION {SeqRange(MapGet(kwTo, i, <<>>)) : i \in {subject, predicate, object}}

\* Associative.RetrieveRelevantEvents: the map it reads is store.kwToThoughts.
RetrieveRelevantEvents(st, subject, predicate, object) ==
    CollectIds(st.kwToThoughts, subject, predicate, object)

\* Associative.RetrieveRelevantThoughts
RetrieveRelevantThoughts(st, subject, predicate, object) ==
    CollectIds(st.kwToThoughts, subject, predicate, object)

\* Associative.GetLastChat: the map is read with the name as it is given.
GetLastChat(st, name) ==
    IF name \in DOMAIN st.kwToChats
    THEN [id |-> st.kwToChats[name][1], ok |-> TRUE]
    ELSE [id |-> 0, ok |-> FALSE]

\* The evidence lists the model passes: none, or the newest node.
EvidenceChoices(st) ==
    {<<>>} \cup (IF Len(st.nodes) > 1 THEN {<<Len(st.nodes) - 1>>} ELSE {})

\* Importance scores given to Add* in this part.
StoreImportances == {1}

InitStore == store = NewAssociative

DoAddEvent ==
    /\ Len(store.nodes) <= MaxNodes
    /\ \E spo \in SPOs, kws \in KeywordLists, imp \in StoreImportances :
          store' = AddEvent(store, spo, kws, imp, <<>>)
    /\ UNCHANGED <<pathVars, retryVars, refl, day, srv, otherVars>>

DoAddThought ==
    /\ Len(store.nodes) <= MaxNodes
    /\ \E spo \in SPOs, kws \in KeywordLists, imp \in StoreImportances,
          ev \in EvidenceChoices(store) :
          store' = AddThought(store, spo, kws, imp, ev)
    /\ UNCHANGED <<pathVars, retryVars, refl, day, srv, otherVars>>

DoAddChat ==
    /\ Len(store.nodes) <= MaxNodes
    /\ \E spo \in SPOs, kws \in KeywordLists, imp \in StoreImportances :
          store' = AddChat(store, spo, kws, imp)
    /\ UNCHANGED <<pathVars, retryVars, refl, day, srv, otherVars>>

(***************************************************************************)
(* PART 4.  Reflection: the trigger counters of agent.State over the       *)
(* phases of Persona.Move (agent/persona.go, agent reflect/plan/perceive). *)
(***************************************************************************)

\* How many nodes the persona's store holds at most in this part.
MaxReflNodes == 4

\* How many events one perceive pass adds at most, and how many insight
\* thoughts one reflection pass adds at most.
MaxPerceived == 2
MaxInsights == 2

\* Importance scores the cognition capability returns for perceived events.
EventImportances == {1, 2}

\* Configured maxima of the reflection trigger (State.ReflectionTrigger).
ReflectionTriggers == {1, 3}

\* importance := 5 of the daily-plan thought (longTermPlanning).
PlanThoughtImportance == 5

PlanSPO == [Subject |-> "Bob", Predicate |-> "plan", Object |-> "Monday"]

EventSPO == [Subject |-> "bed", Predicate |-> "is", Object |-> "used"]

\* Persona.addEventToMemory: AddEvent, then the trigger goes down by the
\* importance and one more element is counted.
addEventToMemory(r, st, spo, keywords, importance) ==
    [refl |-> [r EXCEPT !.CurrentReflectionTrigger = r.CurrentReflectionTrigger - importance,
                        !.ReflectionElements = r.ReflectionElements + 1],
     store |-> AddEvent(st, spo, keywords, importance, <<>>)]

\* Persona.addThoughtToMemory: AddThought and a log line; no counter moves.
addThoughtToMemory(r, st, spo, keywords, importance, evidence) ==
    [refl |-> r, store |-> AddThought(st, spo, keywords, importance, evidence)]

\* A shouldReflect whose threshold is off by one: due at a trigger of 1.
shouldReflectAtOne(r, st) ==
    /\ r.CurrentReflectionTrigger <= 1
    /\ Len(GetLatestEventIds(st)) + Len(GetLatestThoughtIds(st)) # 0

\* Persona.shouldReflect
shouldReflect(r, st) ==
    /\ r.CurrentReflectionTrigger < 1
    /\ Len(GetLatestEventIds(st)) + Len(GetLatestThoughtIds(st)) # 0

\* Persona.resetReflectionTrigger
resetReflectionTrigger(r) ==
    [r EXCEPT !.CurrentReflectionTrigger = r.ReflectionTrigger,
              !.ReflectionElements = 0]

\* The perceive loop: one addEventToMemory per surviving event.
RECURSIVE PerceiveAll(_, _, _)
PerceiveAll(r, st, importances) ==
    IF importances = <<>> THEN [refl |-> r, store |-> st]
    ELSE LET a == addEventToMemory(r, st, EventSPO, <<"bed", "used">>, Head(importances))
         IN  PerceiveAll(a.refl, a.store, Tail(importances))

\* The evidence the generated thoughts cite: the newest node, if any.
NewestEvidence(st) == IF Len(st.nodes) > 1 THEN <<Len(st.nodes) - 1>> ELSE <<>>

\* Persona.runReflect: one addThoughtToMemory per insight thought of every
\* focal point (also used for the two thoughts after a chat).
RECURSIVE runReflect(_, _, _)
runReflect(r, st, nInsights) ==
    IF nInsights = 0 THEN [refl |-> r, store |-> st]
    ELSE LET a == addThoughtToMemory(r, st, PlanSPO, <<"plan">>, 1, NewestEvidence(st))
         IN  runReflect(a.refl, a.store, nInsights - 1)

\* Persona.reflect: reflection when due, then the two thoughts after a chat
\* that has just ended.
reflect(r, st, nInsights, chatEnded) ==
    LET due == shouldReflect(r, st)
        a == IF due
             THEN LET b == runReflect(r, st, nInsights)
                  IN  [refl |-> resetReflectionTrigger(b.refl), store |-> b.store]
             ELSE [refl |-> r, store |-> st]
        c == IF chatEnded THEN runReflect(a.refl, a.store, 2) ELSE a
    IN  [refl |-> [c.refl EXCEPT !.ran = due,
                                 !.before = [trigger |-> r.CurrentReflectionTrigger,
                                             memories |-> Len(st.events) + Len(st.thoughts)]],
         store |-> c.store]

ImportanceSeqs == UNION {[1..n -> EventImportances] : n \in 0..MaxPerceived}

InitRefl ==
    /\ store = NewAssociative
    /\ \E rt \in ReflectionTriggers, cur \in {0, 1}, el \in {0, 1} :
          refl = [pc |-> "start", CurrentReflectionTrigger |-> cur * rt,
                  ReflectionTrigger |-> rt, ReflectionElements |-> el,
                  ran |-> FALSE, before |-> [trigger |-> 0, memories |-> 0]]

\* Move, phase 1: percieve adds the surviving events.
PhasePerceive ==
    /\ refl.pc = "start"
    /\ \E imps \in ImportanceSeqs :
          /\ Len(store.nodes) + Len(imps) <= MaxReflNodes + 1
          /\ LET a == PerceiveAll(refl, store, imps)
             IN  /\ refl' = [a.refl EXCEPT !.pc = "perceived"]
                 /\ store' = a.store
    /\ UNCHANGED <<pathVars, retryVars, day, srv, otherVars>>

\* Move, phase 3: plan; on a new day longTermPlanning stores the plan thought.
PhasePlan ==
    /\ refl.pc = "perceived"
    /\ \E newDay \in BOOLEAN :
          IF newDay /\ Len(store.nodes) <= MaxReflNodes
          THEN LET a == addThoughtToMemory(refl, store, PlanSPO, <<"plan">>,
                                           PlanThoughtImportance, <<>>)
               IN  /\ refl' = [a.refl EXCEPT !.pc = "planned"]
                   /\ store' = a.store
          ELSE /\ refl' = [refl EXCEPT !.pc = "planned"]
               /\ store' = store
    /\ UNCHANGED <<pathVars, retryVars, day, srv, otherVars>>

\* Move, phase 4: reflect.
PhaseReflect ==
    /\ refl.pc = "planned"
    /\ \E n \in 0..MaxInsights, chatEnded \in BOOLEAN :
          /\ Len(store.nodes) + n + (IF chatEnded THEN 2 ELSE 0) <= MaxReflNodes + 1
          /\ LET a == reflect(refl, store, n, chatEnded)
             IN  /\ refl' = [a.refl EXCEPT !.pc = "reflected"]
                 /\ store' = a.store
    /\ UNCHANGED <<pathVars, retryVars, day, srv, otherVars>>

\* Move, phase 5: execute, which touches neither the store nor the counters;
\* the next Move follows.
PhaseExecute ==
    /\ refl.pc = "reflected"
    /\ refl' = [refl EXCEPT !.pc = "start"]
    /\ store' = store
    /\ UNCHANGED <<pathVars, retryVars, day, srv, otherVars>>

(***************************************************************************)
(* PART 5.  A persona's day: the schedule and activity fields of           *)
(* agent.State, determineActivity and the chat/wait reactions of plan      *)
(* (agent/persona.go, agent plan file, GenerateReactionScheduleUpdate).    *)
(* Times of day are seconds since midnight; durations are minutes.         *)
(***************************************************************************)

\* time.Time{}: the zero time, earlier than every time of the simulation.
ZeroTime == -1

\* const dayDuration = 24 * time.Hour, in minutes.
dayDuration == 1440

Plan(activity, duration) == [Activity |-> activity, Duration |-> duration]

RECURSIVE SumDur(_)
SumDur(plans) == IF plans = <<>> THEN 0 ELSE Head(plans).Duration + SumDur(Tail(plans))

\* Go's s[:n] and s[n:] on a sequence (n counted from 0).
Take(s, n) == SubSeq(s, 1, n)

Drop(s, n) == SubSeq(s, n + 1, Len(s))

\* The minute at which entry i (from 0) of a schedule starts.
StartOf(plans, i) == SumDur(Take(plans, i))

\* State.GetDailyPlanIndexInMinutes / GetOriginalDailyPlanIndexInMinutes on
\* a schedule: the first entry whose end lies after the elapsed time, or
\* len(schedule).
PlanIndexInMinutes(plans, currentTime, advance) ==
    LET elapsedToday == currentTime + advance * 60
        hits == {i \in 0..(Len(plans) - 1) : elapsedToday < StartOf(plans, i + 1) * 60}
    IN  IF hits = {} THEN Len(plans)
        ELSE CHOOSE i \in hits : \A j \in hits : i <= j

GetDailyPlanIndexInMinutes(s, advance) ==
    PlanIndexInMinutes(s.DailySchedule, s.CurrentTime, advance)

GetDailyPlanIndex(s) == GetDailyPlanIndexInMinutes(s, 0)

GetOriginalDailyPlanIndex(s) ==
    PlanIndexInMinutes(s.OriginalDailySchedule, s.CurrentTime, 0)

\* s.CurrentTime.Hour()
HourOf(t) == t \div 3600

\* s.CurrentTime.Second()
SecondOf(t) == t % 60

\* Substring tests on the activity descriptions of the model.
ContainsSleeping(desc) == desc \in {"sleeping"}

ContainsSleep(desc) == desc \in {"sleeping", "going to sleep"}

ActivityNames ==
    {"sleeping", "work", "lunch", "dinner", "reading", "tv", "task", "wrap up", "resume",
     "conversation"}

\* fmt.Sprintf("waiting to start %s", desc)
WaitingDesc(desc) == "waiting to start " \o desc

ContainsWaiting(desc) == desc \in {WaitingDesc(a) : a \in ActivityNames}

\* shouldDecomposeActivity (strings.Contains("bed", desc) holds only of a
\* description that is a part of the word "bed"; none of the model's is).
shouldDecomposeActivity(desc, dur) ==
    IF ~ContainsSleep(desc) THEN TRUE
    ELSE IF ContainsSleeping(desc) THEN FALSE
    ELSE IF dur > 60 THEN FALSE
    ELSE TRUE

\* memory.Path: the four levels of an address.  A special path carries its
\* state tag at the front of world ("<waiting> ...", "<persona> ..."); the
\* model keeps the tag in `state` and the rest of world, trimmed, in `world`.
\* A string that the code splits on ':' is given as the sequence of its
\* parts.
EmptyPath == [state |-> "", world |-> "", sector |-> "", arena |-> "", object |-> ""]

\* memory.NewPath with all four levels.
NewPath(world, sector, arena, object) ==
    [state |-> "", world |-> world, sector |-> sector, arena |-> arena, object |-> object]

\* memory.ParsePath on a string of at most four parts.
ParsePath(parts) ==
    [state |-> "",
     world |-> parts[1],
     sector |-> IF Len(parts) > 1 THEN parts[2] ELSE "",
     arena |-> IF Len(parts) > 2 THEN parts[3] ELSE "",
     object |-> IF Len(parts) > 3 THEN parts[4] ELSE ""]

\* memory.SpecialPath for the persona and waiting states:
\* ParsePath(fmt.Sprintf("%s %s", state.ToString(), arg)).
SpecialPath(state, argParts) == [ParsePath(argParts) EXCEPT !.state = state]

\* Path.HasState
HasState(path, state) == path.state = state

\* Path.GetArg: world without its state tag, trimmed.
GetArg(path) == IF path.state # "" THEN path.world ELSE ""

\* Path.IsEmpty
IsEmpty(path) == path = EmptyPath

\* Path.ToString
PathToString(path) ==
    LET str == IF path.state = "" THEN path.world
               ELSE "<" \o path.state \o "> " \o path.world
    IN  IF path.sector = "" THEN str
        ELSE IF path.arena = "" THEN str \o ":" \o path.sector
        ELSE IF path.object = "" THEN str \o ":" \o path.sector \o ":" \o path.arena
        ELSE str \o ":" \o path.sector \o ":" \o path.arena \o ":" \o path.object

NoSPO == [Subject |-> "", Predicate |-> "", Object |-> ""]

\* State.SetActivity
SetActivity(s, address, duration, description, spo, objectDescription, objectSPO) ==
    [s EXCEPT !.ActivityAddress = address, !.ActivityDuration = duration,
              !.ActivityDescription = description, !.ActivitySPO = spo,
              !.ChattingWith = "", !.Chat = <<>>, !.ChatEndTime = ZeroTime,
              !.ActivityObjectDescription = objectDescription,
              !.ActivityObjectSPO = objectSPO,
              !.ActivityStartTime = s.CurrentTime, !.ActivityPathSet = FALSE]

\* State.SetChatActivity
SetChatActivity(s, address, duration, description, spo, chattingWith, chat, chattingWithBuffer, chatEndTime) ==
    [s EXCEPT !.ActivityAddress = address, !.ActivityDuration = duration,
              !.ActivityDescription = description, !.ActivitySPO = spo,
              !.ChattingWith = chattingWith, !.Chat = chat,
              !.ChattingWithBuffer =
                  [k \in DOMAIN s.ChattingWithBuffer \cup DOMAIN chattingWithBuffer |->
                      IF k \in DOMAIN chattingWithBuffer THEN chattingWithBuffer[k]
                      ELSE s.ChattingWithBuffer[k]],
              !.ChatEndTime = chatEndTime,
              !.ActivityObjectDescription = "", !.ActivityObjectSPO = NoSPO,
              !.ActivityStartTime = s.CurrentTime, !.ActivityPathSet = FALSE]

\* An IsActivityFinished that measures a chat by the activity's duration too.
IsActivityFinishedByDuration(s) ==
    IF IsEmpty(s.ActivityAddress) THEN TRUE
    ELSE ~(s.CurrentTime < s.ActivityStartTime + s.ActivityDuration * 60)

\* State.IsActivityFinished
IsActivityFinished(s) ==
    IF IsEmpty(s.ActivityAddress) THEN TRUE
    ELSE LET endTime == IF s.ChattingWith # "" THEN s.ChatEndTime
                        ELSE s.ActivityStartTime + s.ActivityDuration * 60
         IN  ~(s.CurrentTime < endTime)

Panic(s, why) == [s EXCEPT !.outcome = why]

\* What the cognition capability answers to GeneratePlanDecomposition: tasks
\* whose durations sum to the plan's (its validation accepts nothing else).
DecompModes == {"halves"}

\* A decomposition whose answer was not validated against the plan's
\* duration: the last task is a minute short.
GeneratePlanDecompositionUnchecked(plan, mode) ==
    <<Plan("task", plan.Duration \div 2),
      Plan("wrap up", plan.Duration - (plan.Duration \div 2) - 1)>>

GeneratePlanDecomposition(plan, mode) ==
    IF mode = "halves" /\ plan.Duration >= 2
    THEN <<Plan("task", plan.Duration \div 2),
           Plan("wrap up", plan.Duration - (plan.Duration \div 2))>>
    ELSE <<Plan("task", plan.Duration)>>

\* One `if plan.Duration >= 60 && shouldDecomposeActivity(...)` block of
\* determineActivity: entry idx is replaced by its decomposition.
DecomposeAt(plans, idx, mode) ==
    LET plan == plans[idx + 1]
    IN  IF plan.Duration >= 60 /\ shouldDecomposeActivity(plan.Activity, plan.Duration)
        THEN Take(plans, idx) \o GeneratePlanDecomposition(plan, mode) \o Drop(plans, idx + 1)
        ELSE plans

\* The schedule part of determineActivity, up to the padding: both indices
\* are computed once, before any entry is replaced.
DecomposedSchedule(s, mode) ==
    LET first(currIndex, ds) ==
            IF currIndex = 0 THEN DecomposeAt(ds, currIndex, mode) ELSE ds
        second(currIndex, currIndexInHour, ds) ==
            IF currIndex = 0 /\ currIndexInHour + 1 < Len(ds)
            THEN DecomposeAt(ds, currIndexInHour + 1, mode) ELSE ds
        third(currIndexInHour, ds) ==
            IF currIndexInHour < Len(ds) /\ HourOf(s.CurrentTime) < 23
            THEN DecomposeAt(ds, currIndexInHour, mode) ELSE ds
        blocks(currIndex, currIndexInHour) ==
            third(currIndexInHour,
                  second(currIndex, currIndexInHour, first(currIndex, s.DailySchedule)))
    IN  blocks(GetDailyPlanIndex(s), GetDailyPlanIndexInMinutes(s, 60))

\* Persona.determineActivity: decompose, pad with "sleeping", then install
\* DailySchedule[currIndex] as the activity.
determineActivity(s, mode, address) ==
    LET install(currIndex, ds, scheduled, padded) ==
            IF Len(s.DailySchedule) = 0
            THEN Panic(s, "panic: index out of range")
            ELSE IF scheduled > dayDuration
            THEN Panic([s EXCEPT !.DailySchedule = ds],
                       "panic: TODO: handle daily plan longer than day")
            ELSE IF currIndex >= Len(padded)
            THEN Panic([s EXCEPT !.DailySchedule = padded], "panic: index out of range")
            ELSE SetActivity([s EXCEPT !.DailySchedule = padded],
                             address, padded[currIndex + 1].Duration,
                             padded[currIndex + 1].Activity,
                             [Subject |-> s.name, Predicate |-> "is",
                              Object |-> padded[currIndex + 1].Activity],
                             "used",
                             [Subject |-> address.object, Predicate |-> "is", Object |-> "used"])
        pad(currIndex, ds, scheduled) ==
            install(currIndex, ds, scheduled,
                    IF scheduled < dayDuration
                    THEN Append(ds, Plan("sleeping", dayDuration - scheduled))
                    ELSE ds)
        sum(currIndex, ds) == pad(currIndex, ds, SumDur(ds))
    IN  sum(GetDailyPlanIndex(s), DecomposedSchedule(s, mode))

\* What the cognition capability answers to GenerateReactionScheduleUpdate:
\* plans whose durations sum to planningDuration (its validation accepts
\* nothing else).
ReactionModes == {"single", "pair"}

ReactionOutput(inserted, planningDuration, mode) ==
    IF planningDuration = 0 THEN <<>>
    ELSE IF mode = "pair" /\ 0 < inserted.Duration /\ inserted.Duration < planningDuration
    THEN <<Plan(inserted.Activity, inserted.Duration),
           Plan("resume", planningDuration - inserted.Duration)>>
    ELSE <<Plan(inserted.Activity, planningDuration)>>

\* math.Ceil of a number of seconds in minutes.
CeilMinutes(seconds) == (seconds + 59) \div 60

\* The loop of GenerateReactionScheduleUpdate over DailySchedule: the plans
\* of the window [startTime, endTime] (minutes) that are over are kept, the
\* one under way is cut at the current time.
RECURSIVE KeptPlans(_, _, _, _, _)
KeptPlans(plans, durationSum, startTime, endTime, now) ==
    IF plans = <<>> THEN <<>>
    ELSE LET plan == Head(plans)
             end == durationSum + plan.Duration
             truncDur == plan.Duration - CeilMinutes(end * 60 - now)
             here ==
                 IF ~(durationSum >= startTime /\ end <= endTime) THEN <<>>
                 ELSE IF end * 60 <= now THEN <<plan>>
                 ELSE IF durationSum * 60 < now /\ end * 60 > now /\ truncDur # 0
                      THEN <<Plan(plan.Activity, truncDur)>>
                 ELSE <<>>
         IN  here \o KeptPlans(Tail(plans), end, startTime, endTime, now)

\* Client.GenerateReactionScheduleUpdate: the kept plans, then the generated
\* ones.
GenerateReactionScheduleUpdate(s, inserted, startTime, endTime, mode) ==
    LET generatedPlans == KeptPlans(s.DailySchedule, 0, startTime, endTime, s.CurrentTime)
        planningDuration == (endTime - startTime) - SumDur(generatedPlans)
    IN  generatedPlans \o ReactionOutput(inserted, planningDuration, mode)

\* The first entry of the schedule that starts at or after minute t, or -1
\* (the startIndex/endIndex loop of createReact).
FirstIndexFrom(plans, t) ==
    LET hits == {i \in 0..(Len(plans) - 1) : StartOf(plans, i) >= t}
    IN  IF hits = {} THEN -1 ELSE CHOOSE i \in hits : \A j \in hits : i <= j

\* The window [startTime, endTime] (minutes) createReact replans: the hour
\* block of the original schedule under way, with the next one when the
\* block is shorter than two hours.
ReactWindow(s) ==
    LET window(orig, idx, startTime, d) ==
            [startTime |-> startTime,
             endTime |-> IF d >= 120 THEN startTime + d
                         ELSE IF Len(orig) > idx + 1
                              THEN startTime + d + orig[idx + 2].Duration
                         ELSE startTime + 120]
        at(orig, idx) == window(orig, idx, SumDur(Take(orig, idx)), orig[idx + 1].Duration)
    IN  at(s.OriginalDailySchedule, GetOriginalDailyPlanIndex(s))

\* Persona.createReact: splice the new plans into DailySchedule between
\* startIndex and endIndex, then set the activity.
createReact(s, summary, duration, address, spo, chattingWith, chat, chattingWithBuffer, chatEndTime, mode) ==
    LET activity(spliced) ==
            IF chattingWith # ""
            THEN SetChatActivity(spliced, address, duration, summary, spo,
                                 chattingWith, chat, chattingWithBuffer, chatEndTime)
            ELSE SetActivity(spliced, address, duration, summary, spo, "", NoSPO)
        splice(startIndex, endIndex, newPlans) ==
            IF startIndex < 0 \/ endIndex < 0
            THEN Panic(s, "panic: slice bounds out of range")
            ELSE activity([s EXCEPT !.DailySchedule =
                              Take(s.DailySchedule, startIndex) \o newPlans
                                  \o Drop(s.DailySchedule, endIndex)])
        replan(w) ==
            splice(FirstIndexFrom(s.DailySchedule, w.startTime),
                   FirstIndexFrom(s.DailySchedule, w.endTime),
                   GenerateReactionScheduleUpdate(s, Plan(summary, duration),
                                                  w.startTime, w.endTime, mode))
    IN  IF GetOriginalDailyPlanIndex(s) >= Len(s.OriginalDailySchedule)
        THEN Panic(s, "panic: index out of range")
        ELSE replan(ReactWindow(s))

\* Go's int(d.Minutes()) of a number of seconds: truncation towards zero.
TruncMinutes(seconds) ==
    IF seconds >= 0 THEN seconds \div 60 ELSE -((-seconds) \div 60)

\* A persona's State after NewPersona, before its first Move.
NewState(name, pos) ==
    [name |-> name, CurrentTime |-> ZeroTime,
     DailySchedule |-> <<>>, OriginalDailySchedule |-> <<>>,
     ActivityAddress |-> EmptyPath, ActivityDescription |-> "",
     ActivityDuration |-> 0, ActivityStartTime |-> ZeroTime,
     ActivitySPO |-> NoSPO, ActivityPathSet |-> FALSE,
     ActivityObjectDescription |-> "", ActivityObjectSPO |-> NoSPO,
     ChattingWith |-> "", Chat |-> <<>>, ChatEndTime |-> ZeroTime,
     ChattingWithBuffer |-> [k \in {} |-> 0],
     Position |-> pos, PlannedPath |-> <<>>, outcome |-> "ok"]

\* The schedule part of longTermPlanning: GenerateHourlySchedule's answer
\* becomes DailySchedule and its clone OriginalDailySchedule.
longTermPlanning(s, hourly) ==
    [s EXCEPT !.DailySchedule = hourly, !.OriginalDailySchedule = hourly]

\* The conditions letsTalk and letsReact put on the initiator, with those
\* shouldReact checks first.
InitiatorMayReact(s) ==
    /\ s.ChattingWith = ""
    /\ ~HasState(s.ActivityAddress, "waiting")
    /\ ~IsEmpty(s.ActivityAddress)
    /\ s.ActivityDescription # ""
    /\ ~ContainsSleeping(s.ActivityDescription)
    /\ HourOf(s.CurrentTime) # 23

\* A letsTalk without the test of the initiator's ChattingWithBuffer.
InitiatorMayTalkAnyBuffer(s, other) == InitiatorMayReact(s)

InitiatorMayTalk(s, other) ==
    /\ InitiatorMayReact(s)
    /\ ~(other \in DOMAIN s.ChattingWithBuffer /\ s.ChattingWithBuffer[other] > 0)

\* A letsTalk without the test of the target's ChattingWith.
TargetMayTalkWhileChatting(t) ==
    /\ ~IsEmpty(t.ActivityAddress)
    /\ t.ActivityDescription # ""
    /\ ~ContainsSleeping(t.ActivityDescription)
    /\ ~HasState(t.ActivityAddress, "waiting")

\* The conditions letsTalk puts on the target.
TargetMayTalk(t) ==
    /\ ~IsEmpty(t.ActivityAddress)
    /\ t.ActivityDescription # ""
    /\ ~ContainsSleeping(t.ActivityDescription)
    /\ ~HasState(t.ActivityAddress, "waiting")
    /\ t.ChattingWith = ""

\* The conditions letsReact puts on initiator and target.
MayWaitFor(s, t) ==
    /\ InitiatorMayReact(s)
    /\ ~IsEmpty(t.ActivityAddress)
    /\ t.ActivityDescription # ""
    /\ ~ContainsSleeping(t.ActivityDescription)
    /\ ~ContainsWaiting(t.ActivityDescription)
    /\ Len(s.PlannedPath) # 0
    /\ s.ActivityAddress = t.ActivityAddress

\* chatReact's chatEndTime.
ChatEndTimeOf(s, duration) ==
    LET endOfMinute == IF SecondOf(s.CurrentTime) # 0
                       THEN s.CurrentTime + SecondOf(s.CurrentTime)
                       ELSE s.CurrentTime
    IN  endOfMinute + duration * 60

\* chattingWith := map[string]int{other.name: 800}
ChatCooldown == 800

\* The closure react of chatReact, applied to persona s with partner other.
react(s, other, summary, duration, conversation, chatEndTime, mode) ==
    createReact(s, summary, duration, SpecialPath("persona", <<other>>),
                [Subject |-> s.name, Predicate |-> "chat with", Object |-> other],
                other, conversation, [k \in {other} |-> ChatCooldown], chatEndTime, mode)

\* fmt.Sprintf(memory.WaitingArgFormat, pos.X, pos.Y): "X: %d, Y: %d", as
\* its parts between ':'.
WaitingArg(pos) == <<"X", " " \o ToString(pos.X) \o ", Y", " " \o ToString(pos.Y)>>

\* Persona.waitReact; endTime is the end of the target's activity.
waitReact(s, endTime, mode) ==
    LET desc == s.ActivityDescription
        activityDuration == TruncMinutes(endTime - s.CurrentTime) + 1
    IN  createReact(s, WaitingDesc(desc), activityDuration,
                    SpecialPath("waiting", WaitingArg(s.Position)),
                    [Subject |-> s.name, Predicate |-> "waiting to start", Object |-> desc],
                    "", <<>>, [k \in {} |-> 0], ZeroTime, mode)

\* The end of Persona.plan: chat fields are cleared outside a chat, and the
\* chat cooldowns count down.
planCleanup(s) ==
    LET cleared == IF s.ActivitySPO.Predicate # "chat with"
                   THEN [s EXCEPT !.ChattingWith = "", !.Chat = <<>>,
                                  !.ChatEndTime = ZeroTime]
                   ELSE s
    IN  [cleared EXCEPT !.ChattingWithBuffer =
            [k \in DOMAIN s.ChattingWithBuffer |->
                IF k = s.name THEN s.ChattingWithBuffer[k]
                ELSE s.ChattingWithBuffer[k] - 1]]

\* The start of Move and of plan, up to the reaction: the clock is set, a
\* first day is planned, a finished activity is replaced.
planStart(s, currTime, hourly, dmode, address) ==
    LET newDay == s.CurrentTime = ZeroTime
        timed == [s EXCEPT !.CurrentTime = currTime]
        planned == IF newDay THEN longTermPlanning(timed, hourly) ELSE timed
    IN  IF IsActivityFinished(planned)
        THEN determineActivity(planned, dmode, address)
        ELSE planned

\* The state plan tests with IsActivityFinished: the clock is set and a
\* first day is planned.
beforeActivity(s, currTime, hourly) ==
    LET timed == [s EXCEPT !.CurrentTime = currTime]
    IN  IF s.CurrentTime = ZeroTime THEN longTermPlanning(timed, hourly) ELSE timed

\* fmt.Sscanf(arg, memory.WaitingArgFormat, &x, &y): the tiles whose
\* formatted position is the whole of arg; none when arg is not of the
\* format (n != 2).
ScanWaitingArg(arg, tiles) == {t \in tiles : WaitingArg(t) = <<arg>>}

\* execute as it would be if it stepped the persona onto the tile itself
\* instead of leaving that to the last loop of ExecuteStep.
executeInPlace(s, tiles, path) ==
    IF ~s.ActivityPathSet /\ HasState(s.ActivityAddress, "waiting")
                          /\ ScanWaitingArg(GetArg(s.ActivityAddress), tiles) = {}
    THEN [state |-> Panic(s, "panic: Parsed unexpected amount of wait argument"),
          tile |-> s.Position]
    ELSE
    LET planned == IF ~s.ActivityPathSet
                   THEN [s EXCEPT !.PlannedPath = Tail(path), !.ActivityPathSet = TRUE]
                   ELSE s
    IN  IF Len(planned.PlannedPath) > 0
        THEN [state |-> [planned EXCEPT !.PlannedPath = Tail(planned.PlannedPath),
                                        !.Position = Head(planned.PlannedPath)],
              tile |-> Head(planned.PlannedPath)]
        ELSE [state |-> planned, tile |-> s.Position]

\* The state part of Persona.execute, given the tiles of the maze and the
\* path Pathfind chose (start tile included): a path is planned when none
\* is set, then one tile of it is taken.
execute(s, tiles, path) ==
    IF ~s.ActivityPathSet /\ HasState(s.ActivityAddress, "waiting")
                          /\ ScanWaitingArg(GetArg(s.ActivityAddress), tiles) = {}
    THEN [state |-> Panic(s, "panic: Parsed unexpected amount of wait argument"),
          tile |-> s.Position]
    ELSE
    LET planned == IF ~s.ActivityPathSet
                   THEN [s EXCEPT !.PlannedPath = Tail(path), !.ActivityPathSet = TRUE]
                   ELSE s
    IN  IF Len(planned.PlannedPath) > 0
        THEN [state |-> [planned EXCEPT !.PlannedPath = Tail(planned.PlannedPath)],
              tile |-> Head(planned.PlannedPath)]
        ELSE [state |-> planned, tile |-> s.Position]

(***************************************************************************)
(* The day of one persona, "Ann": each action is one Move of hers, or one  *)
(* chat reaction another persona's Move applies to her.  The other         *)
(* persona, the maze and the cognition capability are inputs.              *)
(***************************************************************************)

\* The address the cognition capability resolves every activity to.
HomeAddress == NewPath("the_ville", "home", "room", "desk")

\* Times of day (seconds) at which a step can fall.
DayTimes == {30630, 31550, 43800, 48600, 56400, 70200, 83400}

\* Answers of GenerateHourlySchedule: 24 hours, equal neighbours merged.
HourlySchedules ==
    { <<Plan("sleeping", 480), Plan("work", 240), Plan("lunch", 60), Plan("work", 300),
        Plan("dinner", 60), Plan("reading", 60), Plan("sleeping", 240)>>,
      <<Plan("sleeping", 420), Plan("work", 300), Plan("lunch", 120), Plan("work", 360),
        Plan("dinner", 180), Plan("tv", 60)>> }

\* Lengths in minutes iterativeGenerateConversation gives a conversation.
ChatDurations == {15}

\* Offsets (seconds) of the end of the awaited activity from the current time.
WaitOffsets == {-90, 900}

\* Paths Pathfind can hand execute from Ann's tile.
DayPaths == { <<TilePos(0, 0)>>, <<TilePos(0, 0), TilePos(1, 0), TilePos(2, 0)>> }

DayTiles == {TilePos(0, 0), TilePos(1, 0), TilePos(2, 0)}

\* How far (seconds) the initiator's clock can be ahead of the target's.
TargetLags == {0, 600}

Conversation == << [Speaker |-> "Ann", Sentence |-> "hello"] >>

\* How many operations (Moves, reactions of the other persona) the model
\* follows one persona through.
MaxDayOps == 4

\* No plan phase has run in the last operation.
NoPlanPhase == [ran |-> FALSE]

\* What the plan phase of a Move did up to the reaction: the state it tested
\* with IsActivityFinished, the schedule as determineActivity would decompose
\* it, and the state after the test.
PlanPhase(s, currTime, hourly, dmode, address) ==
    LET planned == beforeActivity(s, currTime, hourly)
    IN  [ran |-> TRUE, planned |-> planned,
         decomposed |-> IF Len(planned.DailySchedule) = 0 THEN <<>>
                        ELSE DecomposedSchedule(planned, dmode),
         started |-> planStart(s, currTime, hourly, dmode, address)]

\* A persona loaded from a saved state in the morning of a day whose saved
\* schedule ends at 18:00 (loader: CurrentTime, DailySchedule and
\* OriginalDailySchedule are taken from the file as they are).
SavedState ==
    [NewState("Ann", TilePos(0, 0)) EXCEPT
        !.CurrentTime = 28800,
        !.DailySchedule = <<Plan("sleeping", 480), Plan("work", 240), Plan("lunch", 60),
                            Plan("work", 300)>>,
        !.OriginalDailySchedule = <<Plan("sleeping", 480), Plan("work", 240),
                                    Plan("lunch", 60), Plan("work", 300)>>]

InitDay ==
    /\ day \in {[p |-> s, lastOp |-> "none", sumBefore |-> 0, plan |-> NoPlanPhase, ops |-> 0] :
                   s \in {NewState("Ann", TilePos(0, 0)), SavedState}}

\* The hourly schedule asked of the cognition capability on the first Move.
HourlyChoices(s) ==
    IF s.CurrentTime = ZeroTime THEN HourlySchedules ELSE {s.OriginalDailySchedule}

\* The end of Move after the reaction: plan's cleanup, then execute.
FinishMove(s, path) ==
    IF s.outcome # "ok" THEN s ELSE execute(planCleanup(s), DayTiles, path).state

\* A Move in which plan reacts to nothing.
DayMove ==
    /\ day.p.outcome = "ok"
    /\ day.ops < MaxDayOps
    /\ \E t \in DayTimes, hourly \in HourlyChoices(day.p), dmode \in DecompModes,
          path \in DayPaths :
          /\ t > day.p.CurrentTime
          /\ \E s \in {planStart(day.p, t, hourly, dmode, HomeAddress)} :
                day' = [p |-> FinishMove(s, path), lastOp |-> "move",
                        sumBefore |-> SumDur(s.DailySchedule),
                        plan |-> PlanPhase(day.p, t, hourly, dmode, HomeAddress),
                        ops |-> day.ops + 1]
    /\ UNCHANGED <<pathVars, retryVars, memoryVars, srv, otherVars>>

\* A Move in which plan starts a chat with Bob (chatReact, initiator side).
DayMoveChat ==
    /\ day.p.outcome = "ok"
    /\ day.ops < MaxDayOps
    /\ \E t \in DayTimes, hourly \in HourlyChoices(day.p), dmode \in DecompModes,
          path \in DayPaths, duration \in ChatDurations, rmode \in ReactionModes :
          /\ t > day.p.CurrentTime
          /\ \E s \in {planStart(day.p, t, hourly, dmode, HomeAddress)} :
                 /\ s.outcome = "ok"
                 /\ InitiatorMayTalk(s, "Bob")
                 /\ day' = [p |-> FinishMove(react(s, "Bob", "conversation", duration,
                                                   Conversation,
                                                   ChatEndTimeOf(s, duration), rmode),
                                             path),
                            lastOp |-> "chat",
                            sumBefore |-> SumDur(s.DailySchedule),
                            plan |-> PlanPhase(day.p, t, hourly, dmode, HomeAddress),
                        ops |-> day.ops + 1]
    /\ UNCHANGED <<pathVars, retryVars, memoryVars, srv, otherVars>>

\* A Move in which plan decides to wait for Bob's activity (waitReact).
DayMoveWait ==
    /\ day.p.outcome = "ok"
    /\ day.ops < MaxDayOps
    /\ \E t \in DayTimes, hourly \in HourlyChoices(day.p), dmode \in DecompModes,
          path \in DayPaths, off \in WaitOffsets, rmode \in ReactionModes :
          /\ t > day.p.CurrentTime
          /\ \E s \in {planStart(day.p, t, hourly, dmode, HomeAddress)} :
                 /\ s.outcome = "ok"
                 /\ InitiatorMayReact(s)
                 /\ Len(s.PlannedPath) # 0
                 /\ day' = [p |-> FinishMove(waitReact(s, s.CurrentTime + off, rmode), path),
                            lastOp |-> "wait",
                            sumBefore |-> SumDur(s.DailySchedule),
                            plan |-> PlanPhase(day.p, t, hourly, dmode, HomeAddress),
                        ops |-> day.ops + 1]
    /\ UNCHANGED <<pathVars, retryVars, memoryVars, srv, otherVars>>

\* Bob's Move starts a chat with Ann (chatReact, target side): the reaction
\* is applied to Ann's state as her last Move left it.
DayChatTarget ==
    /\ day.p.outcome = "ok"
    /\ day.ops < MaxDayOps
    /\ TargetMayTalk(day.p)
    /\ \E duration \in ChatDurations, rmode \in ReactionModes, late \in TargetLags :
          day' = [p |-> react(day.p, "Bob", "conversation", duration, Conversation,
                              day.p.CurrentTime + late + duration * 60, rmode),
                  lastOp |-> "chatTarget",
                  sumBefore |-> SumDur(day.p.DailySchedule),
                  plan |-> NoPlanPhase, ops |-> day.ops + 1]
    /\ UNCHANGED <<pathVars, retryVars, memoryVars, srv, otherVars>>

(***************************************************************************)
(* PART 6.  The orchestrator: Server.ExecuteStep over two personas, with   *)
(* Persona.Move as one action per persona (server step file, agent).       *)
(* A persona's store is kept as the set of its nodes; ids are PART 3 and   *)
(* the reflection counters PART 4.                                         *)
(***************************************************************************)

\* ExecuteStep is run at most this many times.
MaxSteps == 2

\* Server.TimeStep in seconds (meta.SecondsPerStep).
TimeStep == 600

\* skipSleep's `step := 3`.
step == 3

\* State.VisionRadius of both personas.
VisionRadius == 4

\* The personas of the environment: two of them, or all three.
SrvNames == {"Ann", "Bob"}

CrowdNames == {"Ann", "Bob", "Cy"}

\* The personas of a server.
Names(sv) == DOMAIN sv.personas

\* Orders in which a range over the Personas map can visit them.
OrdersOf(names) ==
    {o \in [1..Cardinality(names) -> names] : \A i, j \in DOMAIN o : o[i] = o[j] => i = j}

SrvMaze == [height |-> 1, width |-> 4, collisionInfo |-> [c \in Cells(1, 4) |-> FALSE]]

\* Where the environment file puts the personas.
SrvStart ==
    [n \in CrowdNames |->
        IF n = "Ann" THEN TilePos(0, 0) ELSE IF n = "Bob" THEN TilePos(3, 0) ELSE TilePos(1, 0)]

\* Maze.PathToTiles: the tiles of an address, none when it is unknown.
PathToTiles(plan) == IF plan = HomeAddress THEN <<TilePos(2, 0)>> ELSE <<>>

\* Answers of GenerateHourlySchedule in this part.
SrvSchedules ==
    { <<Plan("work", 180), Plan("sleeping", 300), Plan("work", 960)>>,
      <<Plan("reading", 60), Plan("work", 120), Plan("sleeping", 300), Plan("work", 960)>> }

\* strings.Contains(s, ":") on the strings of this part.
ContainsColon(str) ==
    str \in {PathToString(HomeAddress)}
            \cup {PathToString(SpecialPath("waiting", WaitingArg(t))) : t \in Tiles(SrvMaze)}

\* maze.Event
Event(subject, predicate, object, description) ==
    [Subject |-> subject, Predicate |-> predicate, Object |-> object,
     Description |-> description]

\* Persona.GetCurrentEvent
GetCurrentEvent(s) ==
    IF IsEmpty(s.ActivityAddress) THEN Event(s.name, "", "", "")
    ELSE Event(s.ActivitySPO.Subject, s.ActivitySPO.Predicate, s.ActivitySPO.Object,
               s.ActivityDescription)

\* Persona.GetCurrentObjectEvent
GetCurrentObjectEvent(s) ==
    IF IsEmpty(s.ActivityAddress) THEN Event("", "", "", "")
    ELSE Event(PathToString(s.ActivityAddress), s.ActivityObjectSPO.Predicate,
               s.ActivityObjectSPO.Object, s.ActivityObjectDescription)

\* Maze.AddEventToTile, RemoveEventFromTile, RemoveSubjectEventsFromTile and
\* TurnTileEventIdle on the events of the tiles.
AddEventToTile(te, tile, ev) == [te EXCEPT ![tile] = @ \cup {ev}]

RemoveEventFromTile(te, tile, ev) == [te EXCEPT ![tile] = @ \ {ev}]

RemoveSubjectEventsFromTile(te, tile, subject) ==
    [te EXCEPT ![tile] = {e \in @ : e.Subject # subject}]

TurnTileEventIdle(te, tile, ev) ==
    [te EXCEPT ![tile] = (@ \ {ev}) \cup {Event(ev.Subject, "", "", "")}]

\* Maze.GetNearbyTiles
GetNearbyTiles(m, tile, visionRadius) ==
    LET left == IF tile.X - visionRadius > 0 THEN tile.X - visionRadius ELSE 0
        right == IF tile.X + visionRadius + 1 < m.width
                 THEN tile.X + visionRadius + 1 ELSE m.width
        top == IF tile.Y - visionRadius > 0 THEN tile.Y - visionRadius ELSE 0
        bottom == IF tile.Y + visionRadius + 1 < m.height
                  THEN tile.Y + visionRadius + 1 ELSE m.height
    IN  {TilePos(x, y) : x \in left..(right - 1), y \in top..(bottom - 1)}

\* The events on tiles whose subject is a persona.
PersonaEvents(te) == [t \in DOMAIN te |-> {e \in te[t] : e.Subject \in CrowdNames}]

\* What ExecuteStep must not touch before every Move has returned.
Placement(s) ==
    [Position |-> [n \in Names(s) |-> s.personas[n].Position],
     PersonaPositions |-> s.PersonaPositions,
     personaEvents |-> PersonaEvents(s.tileEvents)]

NoReaction == [kind |-> "none", with |-> ""]

\* The server as the loader leaves it: every persona of the environment on
\* its tile, with its current event there; timeStep is
\* meta.SecondsPerStep.
NewServer(names, timeStep) ==
    LET personas == [n \in names |-> NewState(n, SrvStart[n])]
        start == [n \in names |-> SrvStart[n]]
        te == [t \in Tiles(SrvMaze) |->
                  {GetCurrentEvent(personas[n]) : n \in {m \in names : SrvStart[m] = t}}]
        s0 == [pc |-> "idle", Step |-> 0, CurrentTime |-> 0, TimeStep |-> timeStep,
               personas |-> personas,
               mem |-> [n \in names |-> {}], PersonaPositions |-> start,
               tileEvents |-> te, movements |-> [n \in {} |-> 0],
               gameObjectCleanup |-> [e \in {} |-> 0], todo |-> {},
               mover |-> "", reaction |-> NoReaction, outcome |-> "ok",
               atStart |-> [Position |-> start, PersonaPositions |-> start,
                            personaEvents |-> PersonaEvents(te)]]
    IN  s0

InitSrv == srv = NewServer(SrvNames, TimeStep)

\* Time steps of a simulation that follows its chats closely.
TalkTimeSteps == {5, 10}

\* Two personas with either time step, or three with the longer one.
InitSrvTalk ==
    \E names \in {SrvNames, CrowdNames}, timeStep \in TalkTimeSteps :
        /\ names = CrowdNames => timeStep = 10
        /\ srv = NewServer(names, timeStep)

\* Persona.WakeUpTime (seconds of the day) of a persona whose current
\* schedule entry is "sleeping".
WakeUpTime(s) == SumDur(Take(s.DailySchedule, GetDailyPlanIndex(s) + 1)) * 60

\* The loop of skipSleep over the personas in the given order: "return"
\* (nothing is skipped), "panic" (an index past the schedule), or the
\* earliest wake-up time less the three steps.
RECURSIVE EarliestWakeUp(_, _, _, _)
EarliestWakeUp(order, personas, earliest, timeStep) ==
    LET visit(s, idx, t) ==
            IF idx >= Len(s.DailySchedule)
            THEN [kind |-> "panic", t |-> ZeroTime]
            ELSE IF ~ContainsSleeping(s.DailySchedule[idx + 1].Activity)
            THEN [kind |-> "return", t |-> ZeroTime]
            ELSE IF ~(0 < t)
            THEN [kind |-> "return", t |-> ZeroTime]
            ELSE EarliestWakeUp(Tail(order), personas,
                                IF earliest = ZeroTime \/ t < earliest THEN t ELSE earliest,
                                timeStep)
        of(s) == visit(s, GetDailyPlanIndex(s), WakeUpTime(s) - timeStep * step)
    IN  IF order = <<>> THEN [kind |-> "time", t |-> earliest]
        ELSE of(personas[Head(order)])

\* skipSleep without its last check, that the clock is before the time it
\* is set to.
skipSleepBackwards(s, order) ==
    LET skip(e) ==
            IF e.kind = "panic"
            THEN [s EXCEPT !.outcome = "panic: index out of range", !.pc = "panicked"]
            ELSE IF e.kind = "return" THEN s
            ELSE [s EXCEPT !.CurrentTime = e.t,
                           !.personas = [n \in Names(s) |->
                               [s.personas[n] EXCEPT !.ChattingWithBuffer = [k \in {} |-> 0]]]]
    IN  IF s.CurrentTime \div s.TimeStep < step THEN s
        ELSE skip(EarliestWakeUp(order, s.personas, ZeroTime, s.TimeStep))

\* Server.skipSleep
skipSleep(s, order) ==
    LET skip(e) ==
            IF e.kind = "panic"
            THEN [s EXCEPT !.outcome = "panic: index out of range", !.pc = "panicked"]
            ELSE IF e.kind = "return" \/ ~(s.CurrentTime < e.t) THEN s
            ELSE [s EXCEPT !.CurrentTime = e.t,
                           !.personas = [n \in Names(s) |->
                               [s.personas[n] EXCEPT !.ChattingWithBuffer = [k \in {} |-> 0]]]]
    IN  IF s.CurrentTime \div s.TimeStep < step THEN s
        ELSE skip(EarliestWakeUp(order, s.personas, ZeroTime, s.TimeStep))

\* The first loop of ExecuteStep: a persona at its destination activates
\* the event of its object.
RECURSIVE ObjectEvents(_, _, _, _)
ObjectEvents(order, personas, te, cleanup) ==
    IF order = <<>> THEN [tileEvents |-> te, gameObjectCleanup |-> cleanup]
    ELSE LET s == personas[Head(order)]
             ev == GetCurrentObjectEvent(s)
         IN  IF Len(s.PlannedPath) # 0 \/ ev.Subject = ""
             THEN ObjectEvents(Tail(order), personas, te, cleanup)
             ELSE ObjectEvents(Tail(order), personas,
                      RemoveEventFromTile(AddEventToTile(te, s.Position, ev), s.Position,
                                          Event(ev.Subject, "", "", "")),
                      MapPut(cleanup, ev, s.Position))

\* How many steps a run is followed for: one fewer with three personas.
StepsOf(names) == IF names = SrvNames THEN MaxSteps ELSE MaxSteps - 1

\* ExecuteStep up to the Moves: skipSleep, then the object events.
SrvStepStart ==
    /\ srv.pc = "idle"
    /\ srv.Step < StepsOf(Names(srv))
    /\ \E order \in OrdersOf(Names(srv)) :
          \E skipped \in {skipSleep([srv EXCEPT !.atStart = Placement(srv)], order)} :
          \E objects \in {ObjectEvents(order, skipped.personas, skipped.tileEvents,
                                        [e \in {} |-> 0])} :
              srv' = IF skipped.pc = "panicked" THEN skipped
                     ELSE [skipped EXCEPT !.pc = "moving",
                                          !.tileEvents = objects.tileEvents,
                                          !.gameObjectCleanup = objects.gameObjectCleanup,
                                          !.movements = [n \in {} |-> 0],
                                          !.todo = Names(srv),
                                          !.mover = "", !.reaction = NoReaction]
    /\ UNCHANGED <<pathVars, retryVars, memoryVars, day, otherVars>>

\* A node of a persona's store: type, SPO, description, Created and
\* LastAccessed.
MemNode(type, spo, description, created) ==
    [Type |-> type, Subject |-> spo.Subject, Predicate |-> spo.Predicate,
     Object |-> spo.Object, Description |-> description, Created |-> created,
     LastAccessed |-> created]

\* percieve's view of a tile event: a blank event is "idle", and the
\* description is prefixed with the subject.
PerceivedEvent(ev) ==
    IF ev.Predicate = ""
    THEN Event(ev.Subject, "is", "idle", ev.Subject \o " is idle")
    ELSE Event(ev.Subject, ev.Predicate, ev.Object, ev.Subject \o " is " \o ev.Description)

\* Persona.percieve: the event nodes added for the events of the nearby
\* tiles whose SPO is not among the latest events (attention bandwidth and
\* retention are taken to cover all of them).
PerceivedNodes(s, te, nodes) ==
    LET events == UNION {te[t] : t \in GetNearbyTiles(SrvMaze, s.Position, VisionRadius)}
        known == {<<n.Subject, n.Predicate, n.Object>> : n \in {m \in nodes : m.Type = "event"}}
        fresh == {e \in {PerceivedEvent(ev) : ev \in events} :
                     <<e.Subject, e.Predicate, e.Object>> \notin known}
    IN  {MemNode("event", e, e.Description, s.CurrentTime) : e \in fresh}

\* The chat node percieve stores with the persona's own "chat with" event.
PerceivedChats(s, perceived) ==
    IF \E n \in perceived : n.Subject = s.name /\ n.Predicate = "chat with"
    THEN {MemNode("chat", s.ActivitySPO, s.ActivityDescription, s.CurrentTime)}
    ELSE {}

\* chooseRetrieved: the perceived events that can be focussed on.
chooseRetrieved(s, perceived) ==
    LET retrieved == {n \in perceived : n.Subject # s.name}
        priority == {n \in retrieved : ~ContainsColon(n.Subject)}
    IN  IF priority # {} THEN priority
        ELSE {n \in retrieved : n.Description # n.Subject \o " is idle"}

\* retrieveForFocalPoints: the retrieved nodes (events and thoughts not
\* about "idle") are stamped with the persona's current time.
retrieveForFocalPoints(s, nodes) ==
    {IF n.Type \in {"event", "thought"} /\ n.Object # "idle"
     THEN [n EXCEPT !.LastAccessed = s.CurrentTime] ELSE n : n \in nodes}

\* The tile execute heads for: halfway to the partner of a chat, the tile
\* written in a waiting address, or the tile of the address.
TargetTile(s, personas) ==
    LET halfway(potentialPath, half) ==
            IF Len(potentialPath) <= 2 THEN potentialPath[1]
            ELSE IF Len(Pathfind(SrvMaze, s.Position, potentialPath[half + 1]).path)
                    <= Len(Pathfind(SrvMaze, s.Position, potentialPath[half + 2]).path)
                 THEN potentialPath[half + 1]
                 ELSE potentialPath[half + 2]
        towards(potentialPath) == halfway(potentialPath, Len(potentialPath) \div 2)
        parsed(scanned) == IF scanned = {} THEN s.Position ELSE CHOOSE t \in scanned : TRUE
    IN  IF HasState(s.ActivityAddress, "persona")
        THEN towards(Pathfind(SrvMaze, s.Position,
                              personas[GetArg(s.ActivityAddress)].Position).path)
        ELSE IF HasState(s.ActivityAddress, "waiting")
        THEN parsed(ScanWaitingArg(GetArg(s.ActivityAddress), Tiles(SrvMaze)))
        ELSE PathToTiles(s.ActivityAddress)[1]

\* Persona.execute in the maze of this part.
SrvExecute(s, personas) ==
    IF ~s.ActivityPathSet /\ s.ActivityAddress.state = ""
                          /\ PathToTiles(s.ActivityAddress) = <<>>
    THEN [state |-> Panic(s, "panic: Path not present in maze"), tile |-> s.Position]
    ELSE execute(s, Tiles(SrvMaze),
                 Pathfind(SrvMaze, s.Position, TargetTile(s, personas)).path)

\* The two thoughts reflect stores once a chat is over.
ChatThoughts(s) ==
    IF s.ChatEndTime # ZeroTime /\ ~(s.CurrentTime + 10 < s.ChatEndTime)
    THEN {MemNode("thought", [Subject |-> s.name, Predicate |-> "plan", Object |-> "chat"],
                  "planning thought", s.CurrentTime),
          MemNode("thought", [Subject |-> s.name, Predicate |-> "memo", Object |-> "chat"],
                  "memo thought", s.CurrentTime)}
    ELSE {}

\* The thought longTermPlanning stores with the plan of the day.
PlanThought(s) ==
    MemNode("thought", [Subject |-> s.name, Predicate |-> "plan", Object |-> "today"],
            "plan of the day", s.CurrentTime)

\* Move of `name` up to the reaction: the clock, percieve, and plan as far
\* as determineActivity.
SrvMoveStart(sv, name, hourly, dmode) ==
    LET result(s0, timed, perceived) ==
            [state |-> planStart(s0, sv.CurrentTime, hourly, dmode, HomeAddress),
             perceived |-> perceived,
             mem |-> sv.mem[name] \cup PerceivedChats(timed, perceived) \cup perceived
                        \cup (IF s0.CurrentTime = ZeroTime THEN {PlanThought(timed)} ELSE {})]
        percieve(s0, timed) ==
            result(s0, timed, PerceivedNodes(timed, sv.tileEvents, sv.mem[name]))
    IN  percieve(sv.personas[name],
                 [sv.personas[name] EXCEPT !.CurrentTime = sv.CurrentTime])

\* SrvMoveFinish as it would be if the personas shared one store: what the
\* Move leaves in memory is every persona's memory.
SrvMoveFinishSharedMemory(sv, name, s, mem, reaction) ==
    LET recorded(moved, ex) ==
            IF ex.state.outcome # "ok"
            THEN [moved EXCEPT !.pc = "panicked", !.outcome = ex.state.outcome]
            ELSE [moved EXCEPT
                     !.todo = sv.todo \ {name},
                     !.movements = MapPut(sv.movements, name,
                         [Tile |-> ex.tile,
                          Event |-> Event(ex.state.ActivitySPO.Subject,
                                          ex.state.ActivitySPO.Predicate,
                                          ex.state.ActivitySPO.Object,
                                          ex.state.ActivityDescription \o " @ "
                                              \o PathToString(ex.state.ActivityAddress)),
                          Chat |-> ex.state.Chat])]
        executed(cleaned, ex) ==
            recorded([sv EXCEPT !.personas[name] = ex.state,
                                !.mem = [n \in Names(sv) |-> mem \cup ChatThoughts(cleaned)],
                                !.mover = name, !.reaction = reaction],
                     ex)
        finish(cleaned) ==
            executed(cleaned, SrvExecute(cleaned, [sv.personas EXCEPT ![name] = cleaned]))
    IN  IF s.outcome # "ok" \/ \E n \in Names(sv) : sv.personas[n].outcome # "ok"
        THEN [sv EXCEPT !.personas[name] = s, !.mem[name] = mem, !.mover = name,
                        !.reaction = reaction, !.pc = "panicked",
                        !.outcome = IF s.outcome # "ok" THEN s.outcome
                                    ELSE sv.personas[reaction.with].outcome]
        ELSE finish(planCleanup(s))

\* Move of `name` after the reaction, on the server state sv that already
\* holds what the reaction did: plan's cleanup, reflect, execute, and the
\* movement ExecuteStep records.  A panic ends the program.
SrvMoveFinish(sv, name, s, mem, reaction) ==
    LET recorded(moved, ex) ==
            IF ex.state.outcome # "ok"
            THEN [moved EXCEPT !.pc = "panicked", !.outcome = ex.state.outcome]
            ELSE [moved EXCEPT
                     !.todo = sv.todo \ {name},
                     !.movements = MapPut(sv.movements, name,
                         [Tile |-> ex.tile,
                          Event |-> Event(ex.state.ActivitySPO.Subject,
                                          ex.state.ActivitySPO.Predicate,
                                          ex.state.ActivitySPO.Object,
                                          ex.state.ActivityDescription \o " @ "
                                              \o PathToString(ex.state.ActivityAddress)),
                          Chat |-> ex.state.Chat])]
        executed(cleaned, ex) ==
            recorded([sv EXCEPT !.personas[name] = ex.state,
                                !.mem[name] = mem \cup ChatThoughts(cleaned),
                                !.mover = name, !.reaction = reaction],
                     ex)
        finish(cleaned) ==
            executed(cleaned, SrvExecute(cleaned, [sv.personas EXCEPT ![name] = cleaned]))
    IN  IF s.outcome # "ok" \/ \E n \in Names(sv) : sv.personas[n].outcome # "ok"
        THEN [sv EXCEPT !.personas[name] = s, !.mem[name] = mem, !.mover = name,
                        !.reaction = reaction, !.pc = "panicked",
                        !.outcome = IF s.outcome # "ok" THEN s.outcome
                                    ELSE sv.personas[reaction.with].outcome]
        ELSE finish(planCleanup(s))

\* The hourly schedule asked of the cognition capability on the first Move.
SrvHourlyChoices(s) ==
    IF s.CurrentTime = ZeroTime THEN SrvSchedules ELSE {s.OriginalDailySchedule}

\* persona.Move for one persona of the second loop of ExecuteStep, plan
\* reacting to nothing.
SrvMove ==
    /\ srv.pc = "moving"
    /\ \E name \in srv.todo :
          \E hourly \in SrvHourlyChoices(srv.personas[name]), dmode \in DecompModes :
             \E a \in {SrvMoveStart(srv, name, hourly, dmode)} :
                 srv' = SrvMoveFinish(srv, name, a.state, a.mem, NoReaction)
    /\ UNCHANGED <<pathVars, retryVars, memoryVars, day, otherVars>>

\* chatReact on the server state: the conversation (the initiator's
\* retrievals, and the target's from its first utterance on), then the
\* reaction of the initiator and that of the target.
chatReact(sv, name, s, mem, target, duration, turns, rmode) ==
    LET reacted(t, chatEndTime, initiator, talked) ==
            [sv |-> IF initiator.outcome # "ok" THEN talked
                    ELSE [talked EXCEPT !.personas[target] =
                             react(t, name, "conversation", duration, Conversation,
                                   chatEndTime, rmode)],
             state |-> initiator,
             mem |-> retrieveForFocalPoints(s, mem)]
        conversed(t, chatEndTime) ==
            reacted(t, chatEndTime,
                    react(s, target, "conversation", duration, Conversation,
                          chatEndTime, rmode),
                    [sv EXCEPT !.mem[target] =
                        IF turns >= 2 THEN retrieveForFocalPoints(t, sv.mem[target])
                        ELSE sv.mem[target]])
    IN  conversed(sv.personas[target], ChatEndTimeOf(s, duration))

\* Utterances a conversation can have before it is done.
ChatTurns == {1, 2, 3}

\* The duration iterativeGenerateConversation returns with a conversation of
\* that many utterances: only the utterances of the target that did not end
\* the conversation count, so none does before the third utterance.
ChatDurationsOf(turns) == IF turns < 3 THEN {0} ELSE ChatDurations

\* persona.Move in which plan starts a chat with a persona it has just
\* perceived.
SrvMoveChat ==
    /\ srv.pc = "moving"
    /\ \E name \in srv.todo, target \in Names(srv) :
          \E hourly \in SrvHourlyChoices(srv.personas[name]), dmode \in DecompModes,
             turns \in ChatTurns, rmode \in ReactionModes :
             \E a \in {SrvMoveStart(srv, name, hourly, dmode)},
                duration \in ChatDurationsOf(turns) :
                 /\ a.state.outcome = "ok"
                 /\ target # name
                 /\ \E f \in chooseRetrieved(a.state, a.perceived) : f.Subject = target
                 /\ InitiatorMayTalk(a.state, target)
                 /\ TargetMayTalk(srv.personas[target])
                 /\ \E c \in {chatReact(srv, name, a.state, a.mem, target, duration,
                                          turns, rmode)} :
                        srv' = SrvMoveFinish(c.sv, name, c.state, c.mem,
                                             [kind |-> "chat", with |-> target])
    /\ UNCHANGED <<pathVars, retryVars, memoryVars, day, otherVars>>

\* persona.Move in which plan decides to wait for the activity of a persona
\* it has just perceived.
SrvMoveWait ==
    /\ srv.pc = "moving"
    /\ \E name \in srv.todo, target \in Names(srv) :
          \E hourly \in SrvHourlyChoices(srv.personas[name]), dmode \in DecompModes,
             rmode \in ReactionModes :
             \E a \in {SrvMoveStart(srv, name, hourly, dmode)}, t \in {srv.personas[target]} :
                 /\ a.state.outcome = "ok"
                 /\ target # name
                 /\ \E f \in chooseRetrieved(a.state, a.perceived) : f.Subject = target
                 /\ MayWaitFor(a.state, t)
                 /\ srv' = SrvMoveFinish(srv, name,
                               waitReact(a.state,
                                         t.ActivityStartTime + t.ActivityDuration * 60,
                                         rmode),
                               a.mem, [kind |-> "wait", with |-> target])
    /\ UNCHANGED <<pathVars, retryVars, memoryVars, day, otherVars>>

\* The third and fourth loops of ExecuteStep and its end: persona events
\* move to the new tiles, positions are committed, object events turn
\* idle, the clock advances.
RECURSIVE CommitEvents(_, _, _, _)
CommitEvents(names, personas, movements, te) ==
    IF names = {} THEN te
    ELSE LET name == CHOOSE n \in names : TRUE
             curr == personas[name].Position
             next == movements[name].Tile
         IN  CommitEvents(names \ {name}, personas, movements,
                 AddEventToTile(RemoveSubjectEventsFromTile(te, curr, name), next,
                                GetCurrentEvent(personas[name])))

RECURSIVE CleanupEvents(_, _, _)
CleanupEvents(evs, cleanup, te) ==
    IF evs = {} THEN te
    ELSE LET ev == CHOOSE e \in evs : TRUE
         IN  CleanupEvents(evs \ {ev}, cleanup, TurnTileEventIdle(te, cleanup[ev], ev))

SrvCommit ==
    /\ srv.pc = "moving"
    /\ srv.todo = {}
    /\ \E te \in {CommitEvents(Names(srv), srv.personas, srv.movements, srv.tileEvents)} :
           srv' = [srv EXCEPT
                      !.tileEvents = CleanupEvents(DOMAIN srv.gameObjectCleanup,
                                                   srv.gameObjectCleanup, te),
                      !.PersonaPositions = [n \in Names(srv) |-> srv.movements[n].Tile],
                      !.personas = [n \in Names(srv) |->
                          [srv.personas[n] EXCEPT !.Position = srv.movements[n].Tile]],
                      !.CurrentTime = srv.CurrentTime + srv.TimeStep,
                      !.Step = srv.Step + 1,
                      !.pc = "idle"]
    /\ UNCHANGED <<pathVars, retryVars, memoryVars, day, otherVars>>

(***************************************************************************)
(* PART 7.  The text form of a memory.Path (memory/path.go): ToString,     *)
(* ParsePath, SpecialPath and GetArg, and the waiting argument that        *)
(* waitReact formats and execute scans.  A string is the sequence of its   *)
(* characters here.                                                        *)
(***************************************************************************)

\* Longest segment of a path, and longest text handed to ParsePath.
MaxSegLen == 2
MaxTextLen == 6

\* The characters segments and texts are made of.
SegChars == {"a", ":"}

\* The strings of 1 to n such characters.
StringsUpTo(n) == UNION {[1..k -> SegChars] : k \in 1..n}

\* strings.Split(str, sep) for a one-character sep: the parts between the
\* separators, "" included; one part when there is no separator.
RECURSIVE SplitFrom(_, _, _)
SplitFrom(str, sep, part) ==
    IF str = <<>> THEN <<part>>
    ELSE IF Head(str) = sep THEN <<part>> \o SplitFrom(Tail(str), sep, <<>>)
    ELSE SplitFrom(Tail(str), sep, Append(part, Head(str)))

Split(str, sep) == SplitFrom(str, sep, <<>>)

\* memory.Path as text: the four segments.
PathStr(world, sector, arena, object) ==
    [world |-> world, sector |-> sector, arena |-> arena, object |-> object]

\* What a call that panics leaves instead of a Path.
PathPanic == [panic |-> "paths should consist of 1-4 parts separated by ':'"]

\* memory.ParsePath
ParsePathStr(loc) ==
    LET parts == Split(loc, ":")
    IN  IF Len(parts) > 4 THEN PathPanic
        ELSE PathStr(parts[1],
                     IF Len(parts) > 1 THEN parts[2] ELSE <<>>,
                     IF Len(parts) > 2 THEN parts[3] ELSE <<>>,
                     IF Len(parts) > 3 THEN parts[4] ELSE <<>>)

\* A ToString that leaves out the ':' before the object.
ToStringStrNoLastColon(p) ==
    IF p.sector = <<>> THEN p.world
    ELSE IF p.arena = <<>> THEN p.world \o <<":">> \o p.sector
    ELSE IF p.object = <<>> THEN p.world \o <<":">> \o p.sector \o <<":">> \o p.arena
    ELSE p.world \o <<":">> \o p.sector \o <<":">> \o p.arena \o p.object

\* Path.ToString: the segments up to the first empty one, joined by ':'.
ToStringStr(p) ==
    IF p.sector = <<>> THEN p.world
    ELSE IF p.arena = <<>> THEN p.world \o <<":">> \o p.sector
    ELSE IF p.object = <<>> THEN p.world \o <<":">> \o p.sector \o <<":">> \o p.arena
    ELSE p.world \o <<":">> \o p.sector \o <<":">> \o p.arena \o <<":">> \o p.object

\* PathState.ToString of the special states GetArg goes through, in the
\* order of their constants: waiting, persona, spawning location.
SpecialTags ==
    << <<"<", "w", "a", "i", "t", "i", "n", "g", ">">>,
       <<"<", "p", "e", "r", "s", "o", "n", "a", ">">>,
       <<"<", "s", "p", "a", "w", "n", "_", "l", "o", "c", ">">> >>

WaitingTag == SpecialTags[1]

\* strings.HasPrefix, strings.TrimPrefix, strings.TrimSpace
HasPrefix(str, prefix) ==
    Len(str) >= Len(prefix) /\ SubSeq(str, 1, Len(prefix)) = prefix

TrimPrefix(str, prefix) ==
    IF HasPrefix(str, prefix) THEN SubSeq(str, Len(prefix) + 1, Len(str)) ELSE str

RECURSIVE TrimLeft(_)
TrimLeft(str) == IF str # <<>> /\ Head(str) = " " THEN TrimLeft(Tail(str)) ELSE str

TrimSpace(str) == Reverse(TrimLeft(Reverse(TrimLeft(str))))

\* memory.SpecialPath for a state other than normal and random:
\* ParsePath(fmt.Sprintf("%s %s", state.ToString(), arg)).
SpecialPathStr(tag, arg) == ParsePathStr(tag \o <<" ">> \o arg)

\* Path.GetArg: world without the first special tag it starts with, trimmed;
\* "" when it starts with none.
GetArgStr(p) ==
    LET is == {i \in 1..Len(SpecialTags) : HasPrefix(p.world, SpecialTags[i])}
    IN  IF is = {} THEN <<>>
        ELSE TrimSpace(TrimPrefix(p.world, SpecialTags[CHOOSE i \in is : \A j \in is : i <= j]))

\* WaitingArgFormat = "X: %d, Y: %d"
WaitingArgFormat == <<"X", ":", " ", "%", "d", ",", " ", "Y", ":", " ", "%", "d">>

Digits == <<"0", "1", "2", "3", "4", "5", "6", "7", "8", "9">>

\* The decimal text of a natural number (%d).
RECURSIVE Itoa(_)
Itoa(n) == IF n < 10 THEN <<Digits[n + 1]>> ELSE Append(Itoa(n \div 10), Digits[(n % 10) + 1])

\* fmt.Sprintf for a format of literal characters and %d verbs.
RECURSIVE Sprintf(_, _)
Sprintf(format, args) ==
    IF format = <<>> THEN <<>>
    ELSE IF Len(format) >= 2 /\ format[1] = "%" /\ format[2] = "d"
        THEN Itoa(Head(args)) \o Sprintf(SubSeq(format, 3, Len(format)), Tail(args))
    ELSE <<Head(format)>> \o Sprintf(Tail(format), args)

\* The value of a digit character, -1 for any other character.
DigitValue(c) ==
    IF \E i \in 1..10 : Digits[i] = c THEN (CHOOSE i \in 1..10 : Digits[i] = c) - 1 ELSE -1

\* The digits at the front of input read as a number: [n: how many, value,
\* rest].
RECURSIVE ScanDigits(_, _, _)
ScanDigits(input, count, value) ==
    IF input # <<>> /\ DigitValue(Head(input)) >= 0
    THEN ScanDigits(Tail(input), count + 1, value * 10 + DigitValue(Head(input)))
    ELSE [n |-> count, value |-> value, rest |-> input]

\* fmt.Sscanf for such a format: [n: verbs scanned, values, err].  A literal
\* character must be the next character of the input; a space of the format
\* takes the spaces of the input and needs one unless the input has ended;
\* %d skips spaces and needs a digit.  The scan stops at the first mismatch
\* and reports what it had scanned.
RECURSIVE Sscanf(_, _, _)
Sscanf(input, format, values) ==
    IF format = <<>> THEN [n |-> Len(values), values |-> values, err |-> ""]
    ELSE IF Len(format) >= 2 /\ format[1] = "%" /\ format[2] = "d"
        THEN LET num == ScanDigits(TrimLeft(input), 0, 0)
             IN  IF num.n = 0
                 THEN [n |-> Len(values), values |-> values,
                       err |-> IF TrimLeft(input) = <<>> THEN "unexpected EOF"
                               ELSE "expected integer"]
                 ELSE Sscanf(num.rest, SubSeq(format, 3, Len(format)),
                             Append(values, num.value))
    ELSE IF Head(format) = " "
        THEN IF input # <<>> /\ Head(input) # " "
             THEN [n |-> Len(values), values |-> values,
                   err |-> "expected space in input to match format"]
             ELSE Sscanf(TrimLeft(input), Tail(format), values)
    ELSE IF input = <<>>
        THEN [n |-> Len(values), values |-> values, err |-> "unexpected EOF"]
    ELSE IF Head(input) # Head(format)
        THEN [n |-> Len(values), values |-> values,
              err |-> "input does not match format"]
    ELSE Sscanf(Tail(input), Tail(format), values)

\* The waiting branch of Persona.execute: the target tiles scanned from the
\* argument of the plan's address, or the panic.
WaitingTargets(plan) ==
    LET scan == Sscanf(GetArgStr(plan), WaitingArgFormat, <<>>)
    IN  IF scan.n # 2
        THEN [outcome |-> "panic: Parsed unexpected amount of wait argument", tiles |-> <<>>]
        ELSE IF scan.err # ""
        THEN [outcome |-> "panic: Could not parse waiting arguments", tiles |-> <<>>]
        ELSE [outcome |-> "ok", tiles |-> <<TilePos(scan.values[1], scan.values[2])>>]

\* The address waitReact gives the inserted activity of a persona standing
\* on pos.
WaitingAddress(pos) ==
    SpecialPathStr(WaitingTag, Sprintf(WaitingArgFormat, <<pos.X, pos.Y>>))

\* Paths whose set segments are a prefix of (world, sector, arena, object):
\* 1 to 4 non-empty segments, then empty ones.
PrefixPaths ==
    LET seg == StringsUpTo(MaxSegLen)
    IN  {PathStr(w, <<>>, <<>>, <<>>) : w \in seg}
        \cup {PathStr(w, s, <<>>, <<>>) : w \in seg, s \in seg}
        \cup {PathStr(w, s, a, <<>>) : w \in seg, s \in seg, a \in seg}
        \cup {PathStr(w, s, a, o) : w \in seg, s \in seg, a \in seg, o \in seg}

\* Tiles a persona can stand on when it decides to wait.
WaitPositions == {TilePos(x, y) : x \in {0, 7, 12}, y \in {0, 3, 40}}

InitText == txt = [op |-> "idle"]

\* p.ToString() and ParsePath of it.
DoFormatParse ==
    /\ txt.op = "idle"
    /\ \E p \in PrefixPaths :
          txt' = [op |-> "format", p |-> p, str |-> ToStringStr(p),
                  back |-> ParsePathStr(ToStringStr(p))]
    /\ UNCHANGED <<pathVars, retryVars, memoryVars, day, srv, spatial, ret, exe, per, ltp, conv, wts, walk, cool>>

\* ParsePath of a text.
DoParse ==
    /\ txt.op = "idle"
    /\ \E str \in StringsUpTo(MaxTextLen) :
          txt' = [op |-> "parse", str |-> str, back |-> ParsePathStr(str)]
    /\ UNCHANGED <<pathVars, retryVars, memoryVars, day, srv, spatial, ret, exe, per, ltp, conv, wts, walk, cool>>

\* waitReact's address for a persona on pos, and what the next execute makes
\* of it.
DoWait ==
    /\ txt.op = "idle"
    /\ \E pos \in WaitPositions :
          txt' = [op |-> "wait", pos |-> pos, address |-> WaitingAddress(pos),
                  arg |-> GetArgStr(WaitingAddress(pos)),
                  target |-> WaitingTargets(WaitingAddress(pos))]
    /\ UNCHANGED <<pathVars, retryVars, memoryVars, day, srv, spatial, ret, exe, per, ltp, conv, wts, walk, cool>>

(***************************************************************************)
(* PART 8.  The spatial memory: memory.Spatial (Register, GetKnown).       *)
(* Worlds is world -> sector -> arena -> set of objects; a Go map is a     *)
(* function on the keys set so far.                                        *)
(***************************************************************************)

\* How many Register calls the model makes on one store.
MaxRegisters == 3

\* Names of worlds, sectors, arenas and objects; the same names occur under
\* different parents.
SpatialNames == {"a", "b"}

\* The paths registered and asked about: the empty Path and the paths whose
\* set segments are a prefix of (world, sector, arena, object).
SpatialPaths ==
    {EmptyPath}
    \cup {NewPath(w, "", "", "") : w \in SpatialNames}
    \cup {NewPath(w, s, "", "") : w \in SpatialNames, s \in SpatialNames}
    \cup {NewPath(w, s, a, "") : w \in SpatialNames, s \in SpatialNames, a \in SpatialNames}
    \cup {NewPath(w, s, a, o) : w \in SpatialNames, s \in SpatialNames,
                                a \in SpatialNames, o \in SpatialNames}

\* PathLevel constants.
PathLevelInvalid == 0
PathLevelWorld == 1
PathLevelSector == 2
PathLevelArena == 3
PathLevelObject == 4

\* Path.Get
PathGet(path, level) ==
    CASE level = PathLevelWorld -> path.world
      [] level = PathLevelSector -> path.sector
      [] level = PathLevelArena -> path.arena
      [] level = PathLevelObject -> path.object

\* NewSpatial
NewSpatial == [worlds |-> <<>>, outcome |-> "ok"]

NilMapPanic == "panic: assignment to entry in nil map"

\* A Register that makes the container of every set segment anew, without
\* looking whether it is there.
RegisterAnew(sp, path) ==
    LET w == path.world
        s == path.sector
        a == path.arena
        o == path.object
        one == IF w # "" THEN MapPut(sp.worlds, w, <<>>) ELSE sp.worlds
        two == IF s # "" THEN MapPut(one, w, MapPut(one[w], s, <<>>)) ELSE one
        three == IF a # "" THEN MapPut(two, w, MapPut(two[w], s, MapPut(two[w][s], a, {})))
                 ELSE two
        four == IF o # ""
                THEN MapPut(three, w, MapPut(three[w], s,
                                MapPut(three[w][s], a, three[w][s][a] \cup {o})))
                ELSE three
    IN  [sp EXCEPT !.worlds = four]

\* Spatial.Register: four blocks, one per segment that is set; each looks
\* its container up through the levels above (a missing key reads as a nil
\* map) and creates it when absent.  Writing into a nil map panics.
Register(sp, path) ==
    LET w == path.world
        s == path.sector
        a == path.arena
        o == path.object
        one == IF w # "" /\ w \notin DOMAIN sp.worlds
               THEN MapPut(sp.worlds, w, <<>>) ELSE sp.worlds
        sectorOk == s = "" \/ w \in DOMAIN one
        two == IF s # "" /\ sectorOk /\ s \notin DOMAIN one[w]
               THEN MapPut(one, w, MapPut(one[w], s, <<>>)) ELSE one
        arenaOk == a = "" \/ (w \in DOMAIN two /\ s \in DOMAIN two[w])
        three == IF a # "" /\ sectorOk /\ arenaOk /\ a \notin DOMAIN two[w][s]
                 THEN MapPut(two, w, MapPut(two[w], s, MapPut(two[w][s], a, {})))
                 ELSE two
        objectOk == o = "" \/ (w \in DOMAIN three /\ s \in DOMAIN three[w]
                               /\ a \in DOMAIN three[w][s])
        four == IF o # "" /\ sectorOk /\ arenaOk /\ objectOk
                THEN MapPut(three, w, MapPut(three[w], s,
                                MapPut(three[w][s], a, three[w][s][a] \cup {o})))
                ELSE three
    IN  IF ~sectorOk THEN [worlds |-> one, outcome |-> NilMapPanic]
        ELSE IF ~arenaOk THEN [worlds |-> two, outcome |-> NilMapPanic]
        ELSE IF ~objectOk THEN [worlds |-> three, outcome |-> NilMapPanic]
        ELSE [sp EXCEPT !.worlds = four]

\* Spatial.GetKnown: the keys of the map at the level asked for, found
\* through the path's segments above it; the result as a set (the order of
\* keys() is the map's).
GetKnown(sp, path, level) ==
    IF level = PathLevelInvalid THEN {}
    ELSE IF level <= PathLevelWorld THEN DOMAIN sp.worlds
    ELSE IF PathGet(path, PathLevelWorld) \notin DOMAIN sp.worlds THEN {}
    ELSE LET sectors == sp.worlds[PathGet(path, PathLevelWorld)]
         IN  IF level <= PathLevelSector THEN DOMAIN sectors
             ELSE IF PathGet(path, PathLevelSector) \notin DOMAIN sectors THEN {}
             ELSE LET arenas == sectors[PathGet(path, PathLevelSector)]
                  IN  IF level <= PathLevelArena THEN DOMAIN arenas
                      ELSE IF PathGet(path, PathLevelArena) \notin DOMAIN arenas THEN {}
                      ELSE arenas[PathGet(path, PathLevelArena)]

InitSpatial == spatial = [store |-> NewSpatial, registered |-> {}, calls |-> 0]

\* One call store.Register(path).
DoRegister ==
    /\ spatial.store.outcome = "ok"
    /\ spatial.calls < MaxRegisters
    /\ \E path \in SpatialPaths :
          spatial' = [store |-> Register(spatial.store, path),
                      registered |-> spatial.registered \cup {path},
                      calls |-> spatial.calls + 1]
    /\ UNCHANGED <<pathVars, retryVars, memoryVars, day, srv, txt, ret, exe, per, ltp, conv, wts, walk, cool>>

(***************************************************************************)
(* PART 9.  The choice of a target tile in Persona.execute: the candidate  *)
(* tiles of the activity's address are sampled, tiles holding a persona    *)
(* are passed over, and the candidate with the shortest Pathfind result is *)
(* kept.                                                                   *)
(***************************************************************************)

\* The mazes of this part have at most MaxExeCells tiles, and an address has
\* at most MaxTargets tiles.
MaxExeCells == 4
MaxTargets == 3

\* sample(targetTiles, 4)
sampleSize == 4

ExeMazes == {m \in SmallMazes : m.height * m.width <= MaxExeCells}

\* The arrangements of the tiles of a set: what rand.Shuffle can leave.
Arrangements(tiles) ==
    {s \in [1..Cardinality(tiles) -> tiles] : \A i, j \in DOMAIN s : s[i] = s[j] => i = j}

\* sample(arr, sampleSize): the shuffled slice, cut to sampleSize elements
\* when it has that many.
Sample(tiles, size) ==
    {IF Len(s) < size THEN s ELSE SubSeq(s, 1, size) : s \in Arrangements(tiles)}

\* The candidates without the tiles that hold an event of a persona; all of
\* them when none is left.
WithoutPersonas(targetTiles, busy) ==
    LET newTargetTiles == SelectSeq(targetTiles, LAMBDA t : t \notin busy)
    IN  IF Len(newTargetTiles) # 0 THEN newTargetTiles ELSE targetTiles

\* The loop `for _, target := range targetTiles`: closestTile starts as
\* (-1, -1), the first candidate is taken, a later one when its path is
\* strictly shorter.
RECURSIVE ClosestLoop(_, _, _, _)
ClosestLoop(m, currTile, targetTiles, best) ==
    IF targetTiles = <<>> THEN best
    ELSE LET target == Head(targetTiles)
             currPath == Pathfind(m, currTile, target).path
         IN  ClosestLoop(m, currTile, Tail(targetTiles),
                         IF best.closestTile = TilePos(-1, -1)
                            \/ Len(currPath) < Len(best.path)
                         THEN [closestTile |-> target, path |-> currPath]
                         ELSE best)

\* The part of execute from the sample to the cached route:
\* p.state.PlannedPath = path[1:].
ChooseTarget(m, currTile, sampled, busy) ==
    LET targetTiles == WithoutPersonas(sampled, busy)
        best == ClosestLoop(m, currTile, targetTiles,
                            [closestTile |-> TilePos(-1, -1), path |-> <<>>])
    IN  [targetTiles |-> targetTiles, closestTile |-> best.closestTile,
         path |-> best.path, PlannedPath |-> Tail(best.path)]

InitExe == exe = [op |-> "idle"]

\* One execute of a persona on currTile whose address has the tiles
\* `tiles`, with at most one tile of the maze held by another persona.
DoChooseTarget ==
    /\ exe.op = "idle"
    /\ \E m \in ExeMazes :
       \E currTile \in Tiles(m), busy \in {b \in SUBSET Tiles(m) : Cardinality(b) <= 1},
          tiles \in {ts \in SUBSET Tiles(m) : Cardinality(ts) \in 1..MaxTargets} :
       \E sampled \in Sample(tiles, sampleSize) :
          exe' = [op |-> "chosen", maze |-> m, currTile |-> currTile, busy |-> busy,
                  sampled |-> sampled,
                  choice |-> ChooseTarget(m, currTile, sampled, busy)]
    /\ UNCHANGED <<pathVars, retryVars, memoryVars, day, srv, spatial, txt, ret, per, ltp, conv, wts, walk, cool>>

(***************************************************************************)
(* PART 10.  The weighted retrieval for one focal point: one pass of the   *)
(* loop of Persona.retrieveForFocalPoints with normalizeMap,               *)
(* highestNValues, clampAndFlip and the extract* functions.  Scores are    *)
(* float64 in the code; here they are fixed-point numbers, ScoreScale to   *)
(* the unit, rounded down.                                                 *)
(***************************************************************************)

\* How many nodes the small memories hold at most.
MaxRetNodes == 2

\* config := retrievalConfig{count: 30}; the retrievalOpts are not applied.
count == 30

\* The unit of the fixed-point scores, and of the raw recency scores.
ScoreScale == 1000
RecencyScale == 1000000

\* State.RecencyDecay as a fraction.
RecencyDecays == {[num |-> 99, den |-> 100], [num |-> 1, den |-> 2]}

\* State.RecencyWeight, ImportanceWeight, RelevanceWeight, ValenceWeight.
WeightChoices ==
    {[recency |-> 1, importance |-> 1, relevance |-> 1, valence |-> 1],
     [recency |-> 0, importance |-> 2, relevance |-> 1, valence |-> 0],
     [recency |-> 3, importance |-> 0, relevance |-> 0, valence |-> 1]}

\* Embeddings, all of a whole-number length; the focal point's is the first.
Embeddings == << <<1, 0>>, <<0, 1>>, <<3, 4>>, <<4, 3>> >>

FocalEmbedding == Embeddings[1]

\* A concept node as the retrieval reads it; idle says whether its
\* EmbeddingKey contains "idle".
RetNode(id, type, lastAccessed, importance, valence, embedding, idle) ==
    [Id |-> id, Type |-> type, LastAccessed |-> lastAccessed, Importance |-> importance,
     Valence |-> valence, Embedding |-> embedding, idle |-> idle]

\* What a node of a small memory can look like, its id aside.
NodeShapes ==
    {RetNode(0, type, la, imp, val, emb, FALSE) :
        type \in {"event", "thought"}, la \in {1, 2}, imp \in {1, 5}, val \in {-2, 3},
        emb \in {Embeddings[1], Embeddings[3]}}
    \cup {RetNode(0, "event", 1, 1, 0, Embeddings[2], TRUE)}

\* A memory: its nodes by id, and the ids of its events and of its thoughts,
\* newest first.
MemoryOf(nodes) ==
    [nodes |-> nodes,
     events |-> Reverse(SelectSeq([i \in 1..Len(nodes) |-> i], LAMBDA i : nodes[i].Type = "event")),
     thoughts |-> Reverse(SelectSeq([i \in 1..Len(nodes) |-> i], LAMBDA i : nodes[i].Type = "thought"))]

\* The memories of at most maxNodes nodes.
SmallMemories(maxNodes) ==
    UNION {{MemoryOf([i \in 1..k |-> [shapes[i] EXCEPT !.Id = i]]) : shapes \in [1..k -> NodeShapes]} :
           k \in 0..maxNodes}

\* Memories with about as many candidates as the retrieval keeps: node i was
\* accessed at time i (or the other way round), with importance, valence
\* and embedding going through their values as i grows.
LargeNode(i, n, oldestFirst) ==
    RetNode(i, IF i % 2 = 0 THEN "event" ELSE "thought",
            IF oldestFirst THEN i ELSE n + 1 - i,
            1 + ((i * 7) % 10), ((i * 3) % 7) - 5,
            Embeddings[1 + (i % 4)], FALSE)

LargeMemories ==
    {MemoryOf([i \in 1..n |-> LargeNode(i, n, oldestFirst)]) :
        n \in {count, count + 1, count + 2}, oldestFirst \in BOOLEAN}

\* The candidates: events, then thoughts, without the idle nodes.
Candidates(mem) ==
    SelectSeq(mem.events \o mem.thoughts, LAMBDA n : ~mem.nodes[n].idle)

\* slices.SortFunc by LastAccessed: the orders it can leave, ascending, nodes
\* of equal LastAccessed in any order.
RECURSIVE SortedByLastAccessed(_, _)
SortedByLastAccessed(mem, ids) ==
    IF ids = {} THEN {<<>>}
    ELSE LET firsts == {f \in ids : \A g \in ids : mem.nodes[f].LastAccessed <= mem.nodes[g].LastAccessed}
         IN  UNION {{<<f>> \o rest : rest \in SortedByLastAccessed(mem, ids \ {f})} : f \in firsts}

\* math.Pow(RecencyDecay, i) in units of 1/RecencyScale.
RECURSIVE DecayPow(_, _)
DecayPow(decay, i) ==
    IF i = 0 THEN RecencyScale ELSE (DecayPow(decay, i - 1) * decay.num) \div decay.den

\* extractRecency: out[node] = math.Pow(RecencyDecay, i+1) for the node at
\* index i of the sorted candidates.
extractRecency(decay, nodes) ==
    Materialize([n \in SeqRange(nodes) |->
                    DecayPow(decay, CHOOSE i \in 1..Len(nodes) : nodes[i] = n)])

\* extractImportance
extractImportance(mem, nodes) ==
    Materialize([n \in SeqRange(nodes) |-> mem.nodes[n].Importance])

\* extractValence
extractValence(mem, nodes) ==
    Materialize([n \in SeqRange(nodes) |-> mem.nodes[n].Valence])

\* The length of an embedding (math.Sqrt of the sum of squares).
Norm(a) == CHOOSE r \in 0..10 : r * r = a[1] * a[1] + a[2] * a[2]

\* cosineSimilarity, in units of 1/ScoreScale.
cosineSimilarity(a, b) ==
    ((a[1] * b[1] + a[2] * b[2]) * ScoreScale) \div (Norm(a) * Norm(b))

\* extractRelevance
extractRelevance(mem, nodes, focalEmbedding) ==
    Materialize([n \in SeqRange(nodes) |->
                    cosineSimilarity(mem.nodes[n].Embedding, focalEmbedding)])

\* clampAndFlip(m, clamp): a negative value changes sign, any other is cut
\* to at most clamp.
clampAndFlip(m, clamp) ==
    Materialize([k \in DOMAIN m |->
                    IF m[k] < 0 THEN -m[k] ELSE IF m[k] < clamp THEN m[k] ELSE clamp])

\* normalizeMap(m, 0, 1), in units of 1/ScoreScale: every value
\* (targetMax - targetMin) / 2 when all are equal, else (val - min) / dist.
\* The empty map has no min and max (NaN) and the function panics.
normalizeMap(m) ==
    LET vals == {m[k] : k \in DOMAIN m}
        withMinMax(min, max) ==
            Materialize([k \in DOMAIN m |->
                            IF max = min THEN ScoreScale \div 2
                            ELSE ((m[k] - min) * ScoreScale) \div (max - min)])
    IN  withMinMax(CHOOSE v \in vals : \A u \in vals : v <= u,
                   CHOOSE v \in vals : \A u \in vals : u <= v)

\* highestNValues(m, n): the keys are sorted by value with
\* cmp.Compare(a.v, b.v), that is in ascending order, and the first n are
\* kept.  The key sets it can return: keys of equal value come in any order.
highestNValues(m, n) ==
    LET keys == DOMAIN m
        k == IF n > Cardinality(keys) THEN Cardinality(keys) ELSE n
        cut == {m[x] : x \in {y \in keys :
                    /\ Cardinality({z \in keys : m[z] < m[y]}) < k
                    /\ k <= Cardinality({z \in keys : m[z] <= m[y]})}}
        kept(t) ==
            LET below == {x \in keys : m[x] < t}
                at == {x \in keys : m[x] = t}
            IN  {below \cup some : some \in {s \in SUBSET at : Cardinality(s) = k - Cardinality(below)}}
    IN  IF k = 0 THEN {{}} ELSE UNION {kept(t) : t \in cut}

\* The four normalised score maps of the candidates.
ComponentScores(mem, decay, nodes) ==
    [recency |-> normalizeMap(extractRecency(decay, nodes)),
     importance |-> normalizeMap(extractImportance(mem, nodes)),
     relevance |-> normalizeMap(extractRelevance(mem, nodes, FocalEmbedding)),
     valence |-> normalizeMap(clampAndFlip(extractValence(mem, nodes), 0))]

\* out[key]: the weighted sum (the code's own weights are all 1).
FinalScores(c, weights) ==
    Materialize([key \in DOMAIN c.recency |->
                    c.recency[key] * 1 * weights.recency
                    + c.importance[key] * 1 * weights.importance
                    + c.relevance[key] * 1 * weights.relevance
                    + c.valence[key] * 1 * weights.valence])

\* UpdateNode for every node kept: LastAccessed = CurrentTime.
Stamped(mem, kept, currentTime) ==
    [mem EXCEPT !.nodes = [i \in DOMAIN mem.nodes |->
                              IF i \in kept
                              THEN [mem.nodes[i] EXCEPT !.LastAccessed = currentTime]
                              ELSE mem.nodes[i]]]

\* The retrievalOpts of the callers: none, withRetrievalCount(15) and
\* withRetrievalCount(50) (iterativeGenerateConversation), each option by
\* the count it asks for.
RetrievalOpts == {<<>>, <<15>>, <<50>>}

\* config := retrievalConfig{count: 30}: no option is applied to it.
retrievalConfig(retrievalOpts) == [count |-> count]

\* The time of the retrievals.
RetrievalTime == 9

InitRet == ret = [op |-> "idle"]

\* One pass of the loop of retrieveForFocalPoints over a memory that has a
\* candidate.
DoRetrieve ==
    /\ ret.op = "idle"
    /\ \E mem \in SmallMemories(MaxRetNodes) \cup LargeMemories, decay \in RecencyDecays,
          weights \in WeightChoices, retrievalOpts \in RetrievalOpts :
          /\ Len(Candidates(mem)) > 0
          /\ \E nodes \in SortedByLastAccessed(mem, SeqRange(Candidates(mem))) :
             \E c \in {ComponentScores(mem, decay, nodes)} :
             \E out \in {FinalScores(c, weights)} :
             \E kept \in highestNValues(out, retrievalConfig(retrievalOpts).count) :
                ret' = [op |-> "retrieved", mem |-> mem, weights |-> weights,
                        retrievalOpts |-> retrievalOpts,
                        decay |-> decay, nodes |-> nodes,
                        raw |-> [recency |-> extractRecency(decay, nodes),
                                 importance |-> extractImportance(mem, nodes),
                                 relevance |-> extractRelevance(mem, nodes, FocalEmbedding),
                                 valence |-> clampAndFlip(extractValence(mem, nodes), 0)],
                        out |-> out, retrieved |-> kept,
                        after |-> Stamped(mem, kept, RetrievalTime)]
    /\ UNCHANGED <<pathVars, retryVars, memoryVars, day, srv, spatial, txt, exe, per, ltp, conv, wts, walk, cool>>

\* The same over a memory without a candidate: normalizeMap panics on the
\* empty recency map.
DoRetrieveNothing ==
    /\ ret.op = "idle"
    /\ \E mem \in SmallMemories(MaxRetNodes) :
          /\ Len(Candidates(mem)) = 0
          /\ ret' = [op |-> "panicked", mem |-> mem,
                     why |-> "panic: map has NaN min (NaN) or max (NaN) value"]
    /\ UNCHANGED <<pathVars, retryVars, memoryVars, day, srv, spatial, txt, exe, per, ltp, conv, wts, walk, cool>>

(***************************************************************************)
(* PART 11.  The node log of one persona over time: the store is loaded by *)
(* replaying Add* calls (loader), then grows by Add* calls and is read by  *)
(* retrieveForFocalPoints, which stamps the nodes it returns.  The store   *)
(* is PART 3's, its nodes with the fields the retrieval reads; ret holds   *)
(* the persona's clock and what the last operation was.                    *)
(***************************************************************************)

\* How many operations the model runs on one log after it was loaded.
MaxLogOps == 3

\* The triples given to Add* in this part: the idle triple and an ordinary
\* one.
LogSPOs == {s \in SPOs : s.Subject = "Bob" /\ s.Object = "idle"} \cup {s \in SPOs : s.Subject = "bed"}

\* strings.Contains(EmbeddingKey, "idle"): the embedding key is the
\* description, which spells out the triple.
KeyHasIdle(spo) == spo.Object = "idle"

\* The embedding cached under the description of a triple.
EmbeddingOf(spo) == IF spo.Object = "idle" THEN Embeddings[2] ELSE Embeddings[3]

\* Created: created, LastAccessed: created, Valence: valence, EmbeddingKey
\* and the embedding, on the node an Add* call has just appended.
WithTimes(st, spo, valence, created) ==
    [st EXCEPT !.nodes[Len(st.nodes)] =
        @ @@ [Created |-> created, LastAccessed |-> created, Valence |-> valence,
              Embedding |-> EmbeddingOf(spo), idle |-> KeyHasIdle(spo)]]

\* Associative.AddEvent, AddThought and AddChat with their created and
\* valence arguments.
AddEventAt(st, spo, keywords, importance, valence, created) ==
    WithTimes(AddEvent(st, spo, keywords, importance, <<>>), spo, valence, created)

AddThoughtAt(st, spo, keywords, importance, valence, created) ==
    WithTimes(AddThought(st, spo, keywords, importance, <<>>), spo, valence, created)

AddChatAt(st, spo, keywords, importance, valence, created) ==
    WithTimes(AddChat(st, spo, keywords, importance), spo, valence, created)

\* The triple of the saved nodes.
SavedSPO == [Subject |-> "bed", Predicate |-> "is", Object |-> "used"]

\* The ids among 1..n of one parity, newest first.
NewestFirst(n, parity) ==
    LET ids == SelectSeq([i \in 1..n |-> i], LAMBDA i : i % 2 = parity)
    IN  Reverse(ids)

\* The store the loader builds from n saved nodes by one Add* call each,
\* node i created at time i: thoughts and events in turn with keyword
\* "plan", none idle.  It is what AddThoughtAt (odd i) and AddEventAt (even
\* i) leave when they are called for i = 1..n with SavedSPO, importance
\* 1 + (7i mod 10) and valence (3i mod 7) - 5.
LoadedStore(n) ==
    [nodes |->
        <<ZeroNode>> \o
        [i \in 1..n |->
            [Id |-> i, NodeCount |-> i, TypeCount |-> (i - 1) \div 2,
             Type |-> IF i % 2 = 0 THEN "event" ELSE "thought",
             Depth |-> IF i % 2 = 0 THEN 0 ELSE 1,
             Subject |-> SavedSPO.Subject, Predicate |-> SavedSPO.Predicate,
             Object |-> SavedSPO.Object, Importance |-> 1 + ((i * 7) % 10),
             Keywords |-> <<"plan">>, Evidence |-> <<>>,
             Created |-> i, LastAccessed |-> i, Valence |-> ((i * 3) % 7) - 5,
             Embedding |-> EmbeddingOf(SavedSPO), idle |-> KeyHasIdle(SavedSPO)]],
     events |-> NewestFirst(n, 0), thoughts |-> NewestFirst(n, 1), chats |-> <<>>,
     kwToEvents |-> IF n >= 2 THEN MapPut(<<>>, "plan", NewestFirst(n, 0)) ELSE <<>>,
     kwToThoughts |-> IF n >= 1 THEN MapPut(<<>>, "plan", NewestFirst(n, 1)) ELSE <<>>,
     kwToChats |-> <<>>, kwStrengthEvents |-> <<>>, kwStrengthThoughts |-> <<>>]

\* The store as the retrieval reads it: GetNode(id) for the ids from 1, and
\* the latest event and thought ids.
MemoryOfStore(st) ==
    [nodes |-> Tail(st.nodes), events |-> GetLatestEventIds(st),
     thoughts |-> GetLatestThoughtIds(st)]

\* UpdateNode for every node of a set, stamping all nodes of the log.
UpdateNodesAll(st, kept, lastAccessed) ==
    [st EXCEPT !.nodes = [i \in DOMAIN st.nodes |->
                             IF i > 1 THEN [st.nodes[i] EXCEPT !.LastAccessed = lastAccessed]
                             ELSE st.nodes[i]]]

\* Associative.UpdateNode(k, c.LastAccessed = CurrentTime) for every
\* returned node k.
UpdateNodes(st, kept, lastAccessed) ==
    [st EXCEPT !.nodes = [i \in DOMAIN st.nodes |->
                             IF (i - 1) \in kept
                             THEN [st.nodes[i] EXCEPT !.LastAccessed = lastAccessed]
                             ELSE st.nodes[i]]]

\* The persona's RecencyDecay and weights in this part.
LogDecay == [num |-> 99, den |-> 100]

LogWeights == [recency |-> 1, importance |-> 1, relevance |-> 1, valence |-> 1]

\* The node sets one retrieval for one focal point can return.
Retrieved(st) ==
    LET mem == MemoryOfStore(st)
    IN  UNION {highestNValues(FinalScores(ComponentScores(mem, LogDecay, nodes), LogWeights),
                              retrievalConfig(<<>>).count) :
               nodes \in SortedByLastAccessed(mem, SeqRange(Candidates(mem)))}

\* The clock when the log has been loaded.
LogStartTime == 100

InitLog ==
    /\ store \in {NewAssociative, LoadedStore(count + 1)}
    /\ ret = [op |-> "loaded", CurrentTime |-> LogStartTime, ops |-> 0, retrieved |-> {}]

\* The persona's clock moves on with every operation.
Later(op, retrieved) ==
    [op |-> op, CurrentTime |-> ret.CurrentTime + 1, ops |-> ret.ops + 1, retrieved |-> retrieved]

LogCanRun == ret.op \in {"loaded", "added", "retrieved"} /\ ret.ops < MaxLogOps

\* How many candidates may share one LastAccessed when a retrieval is run:
\* the sort leaves them in any order.
MaxTied == 3

TiedAtMost(st, n) ==
    LET mem == MemoryOfStore(st)
        ids == SeqRange(Candidates(mem))
    IN  \A a \in ids :
            Cardinality({b \in ids : mem.nodes[b].LastAccessed = mem.nodes[a].LastAccessed}) <= n

LogAddEvent ==
    /\ LogCanRun
    /\ \E spo \in LogSPOs :
          store' = AddEventAt(store, spo, <<"Bob", "idle">>, 1, 3, ret.CurrentTime)
    /\ ret' = Later("added", {})
    /\ UNCHANGED <<pathVars, retryVars, refl, day, srv, spatial, txt, exe, per, ltp, conv, wts, walk, cool>>

LogAddThought ==
    /\ LogCanRun
    /\ \E spo \in LogSPOs :
          store' = AddThoughtAt(store, spo, <<"plan">>, 5, -2, ret.CurrentTime)
    /\ ret' = Later("added", {})
    /\ UNCHANGED <<pathVars, retryVars, refl, day, srv, spatial, txt, exe, per, ltp, conv, wts, walk, cool>>

LogAddChat ==
    /\ LogCanRun
    /\ \E spo \in {s \in SPOs : s.Predicate = "chat with"} :
          store' = AddChatAt(store, spo, <<"Bob", "idle">>, 1, 3, ret.CurrentTime)
    /\ ret' = Later("added", {})
    /\ UNCHANGED <<pathVars, retryVars, refl, day, srv, spatial, txt, exe, per, ltp, conv, wts, walk, cool>>

\* retrieveForFocalPoints for one focal point over a log with a candidate.
LogRetrieve ==
    /\ LogCanRun
    /\ Len(Candidates(MemoryOfStore(store))) > 0
    /\ TiedAtMost(store, MaxTied)
    /\ \E kept \in Retrieved(store) :
          /\ store' = UpdateNodes(store, kept, ret.CurrentTime)
          /\ ret' = Later("retrieved", kept)
    /\ UNCHANGED <<pathVars, retryVars, refl, day, srv, spatial, txt, exe, per, ltp, conv, wts, walk, cool>>

\* The same over a log without a candidate: normalizeMap panics.
LogRetrieveNothing ==
    /\ LogCanRun
    /\ Len(Candidates(MemoryOfStore(store))) = 0
    /\ ret' = Later("panicked", {})
    /\ UNCHANGED <<pathVars, retryVars, store, refl, day, srv, spatial, txt, exe, per, ltp, conv, wts, walk, cool>>

(***************************************************************************)
(* PART 12.  Persona.percieve: the persona registers the tiles of its      *)
(* vision square, collects the events of the tiles that match its arena,   *)
(* orders them by distance, keeps AttentionBandwidth of them and stores    *)
(* those whose triple is not among its Retention latest events.            *)
(***************************************************************************)

\* How many perceive passes of one persona the model follows.
MaxPasses == 2

\* The maze of this part: two rows of three tiles.
PerMaze == [height |-> 2, width |-> 3]

\* Tile.Path of the tiles: a sofa along the upper row of the room, below it
\* a corridor tile with no arena, the desk of the room and the kitchen.
TilePath(t) ==
    IF t.Y = 0 THEN NewPath("ville", "home", "room", "sofa")
    ELSE IF t.X = 0 THEN NewPath("ville", "home", "", "")
    ELSE IF t.X = 1 THEN NewPath("ville", "home", "room", "desk")
    ELSE NewPath("ville", "home", "kitchen", "stove")

\* Path.AtLevel
AtLevel(path, level) ==
    IF level = PathLevelInvalid THEN path
    ELSE [state |-> "",
          world |-> IF level >= PathLevelWorld THEN path.world ELSE "",
          sector |-> IF level >= PathLevelSector THEN path.sector ELSE "",
          arena |-> IF level >= PathLevelArena THEN path.arena ELSE "",
          object |-> IF level >= PathLevelObject THEN path.object ELSE ""]

\* Path.Matches: a segment the mask leaves empty matches anything.
Matches(path, mask) ==
    /\ mask.world # "" => path.world = mask.world
    /\ mask.sector # "" => path.sector = mask.sector
    /\ mask.arena # "" => path.arena = mask.arena
    /\ mask.object # "" => path.object = mask.object

\* Path.Base
Base(path) ==
    IF path.object # "" THEN path.object
    ELSE IF path.arena # "" THEN path.arena
    ELSE IF path.sector # "" THEN path.sector
    ELSE path.world

\* TilePos.EuclidianDistance, squared: the square root of the source keeps
\* the order and the ties of these sums.
EuclidianDistance(t, o) == (t.X - o.X) * (t.X - o.X) + (t.Y - o.Y) * (t.Y - o.Y)

\* The slice GetNearbyTiles returns: column after column, each from the top.
nearbyTiles(m, tile, visionRadius) ==
    LET nearby == GetNearbyTiles(m, tile, visionRadius)
        left == CHOOSE x \in {t.X : t \in nearby} : \A t \in nearby : x <= t.X
        top == CHOOSE y \in {t.Y : t \in nearby} : \A t \in nearby : y <= t.Y
        rows == Cardinality({t.Y : t \in nearby})
    IN  [i \in 1..Cardinality(nearby) |->
            TilePos(left + ((i - 1) \div rows), top + ((i - 1) % rows))]

\* The events of this part.  The sofa events differ in their description
\* only; the desk event is blank.
SofaUsed == Event("sofa", "is", "used", "used")
SofaTaken == Event("sofa", "is", "used", "taken")
DeskBlank == Event("desk", "", "", "")
BobReading == Event("Bob", "is", "reading", "reading")
AnnChatting == Event("Ann", "chat with", "Bob", "chatting with Bob")

SofaTiles == {TilePos(0, 0), TilePos(1, 0), TilePos(2, 0)}

\* Where an event can be: nowhere, or on the tiles of its object or persona.
Places(ev) ==
    IF ev \in {SofaUsed, SofaTaken} THEN {{}, SofaTiles}
    ELSE IF ev = DeskBlank THEN {{}, {TilePos(1, 1)}}
    ELSE IF ev = BobReading THEN {{}, {TilePos(2, 1)}, {TilePos(1, 0)}}
    ELSE {{}, {TilePos(1, 1)}}

PerEvents == {SofaUsed, SofaTaken, DeskBlank, BobReading, AnnChatting}

\* Tile.Events of every tile, for each way of placing the events.
TileEvents ==
    {[t \in Tiles(PerMaze) |-> {ev \in PerEvents : t \in where[ev]}] :
        where \in {w \in [PerEvents -> UNION {Places(ev) : ev \in PerEvents}] :
                      \A ev \in PerEvents : w[ev] \in Places(ev)}}

\* The tiles percieve takes events from: the nearby ones that hold events and
\* match the arena-level Path of the persona's tile.
ArenaTiles(te, position, visionRadius) ==
    LET nearby == nearbyTiles(PerMaze, position, visionRadius)
        currentArenaPath == AtLevel(TilePath(position), PathLevelArena)
    IN  SelectSeq(nearby,
                  LAMBDA t : /\ te[t] # {}
                             /\ Matches(AtLevel(TilePath(t), PathLevelArena), currentArenaPath))

\* perceptEvents before the sort, as a set: every event once, with the
\* distance of the first tile of the slice that holds it.
perceptEvents(te, position, visionRadius) ==
    LET tiles == ArenaTiles(te, position, visionRadius)
        first(ev) == CHOOSE i \in 1..Len(tiles) :
                        /\ ev \in te[tiles[i]]
                        /\ \A j \in 1..(i - 1) : ev \notin te[tiles[j]]
    IN  {[event |-> ev, distance |-> EuclidianDistance(position, tiles[first(ev)])] :
            ev \in UNION {te[tiles[i]] : i \in 1..Len(tiles)}}

\* slices.SortFunc by distance: the orders it can leave the percepts in
\* (the sort is not stable, and a range over Tile.Events has no fixed order).
SortedPercepts(percepts) ==
    {s \in [1..Cardinality(percepts) -> percepts] :
        /\ \A i, j \in DOMAIN s : i < j => s[i] # s[j] /\ s[i].distance <= s[j].distance}

\* percievedEvents: the first min(AttentionBandwidth, len) events.
percievedEvents(sorted, attentionBandwidth) ==
    LET percievedMax == IF attentionBandwidth < Len(sorted)
                        THEN attentionBandwidth ELSE Len(sorted)
    IN  [i \in 1..percievedMax |-> sorted[i].event]

\* A blank event is perceived as "is idle".
Perceived(ev) ==
    IF ev.Predicate = ""
    THEN Event(ev.Subject, "is", "idle", "idle")
    ELSE ev

\* ConceptNode.SPOSummary
SPOSummary(node) ==
    [Subject |-> node.Subject, Predicate |-> node.Predicate, Object |-> node.Object]

\* A GetLatestEventSPOs that takes the n oldest events.
GetOldestEventSPOs(st, n) ==
    LET m == IF Len(st.events) < n THEN Len(st.events) ELSE n
    IN  {SPOSummary(st.nodes[st.events[Len(st.events) + 1 - i] + 1]) : i \in 1..m}

\* Associative.GetLatestEventSPOs
GetLatestEventSPOs(st, n) ==
    LET m == IF Len(st.events) < n THEN Len(st.events) ELSE n
    IN  {SPOSummary(st.nodes[st.events[i] + 1]) : i \in 1..m}

\* Importance score the cognition capability gives in this part.
PerImportance == 5

\* The loop of percieve over percievedEvents: an event whose triple is among
\* the latest is skipped; the persona's own "chat with" event stores a chat
\* node first.  mem is [store, memories].
RECURSIVE PercieveLoop(_, _, _, _)
PercieveLoop(mem, events, name, retention) ==
    IF events = <<>> THEN mem
    ELSE LET percievedEvent == Perceived(Head(events))
             spo == [Subject |-> percievedEvent.Subject,
                     Predicate |-> percievedEvent.Predicate,
                     Object |-> percievedEvent.Object]
             subject == Base(ParsePath(<<spo.Subject>>))
             object == Base(ParsePath(<<spo.Object>>))
             keywords == <<subject, object>>
             isChat == subject = name /\ spo.Predicate = "chat with"
             withChat == IF isChat
                         THEN AddChat(mem.store, spo, keywords, PerImportance)
                         ELSE mem.store
             chatNodes == IF isChat THEN <<NextNodeId(mem.store)>> ELSE <<>>
             added == AddEvent(withChat, spo, keywords, PerImportance, chatNodes)
         IN  IF spo \in GetLatestEventSPOs(mem.store, retention)
             THEN PercieveLoop(mem, Tail(events), name, retention)
             ELSE PercieveLoop([store |-> added,
                                memories |-> Append(mem.memories, NextNodeId(withChat))],
                               Tail(events), name, retention)

\* The tiles of the vision square are registered in the spatial memory.
RECURSIVE RegisterAll(_, _)
RegisterAll(sp, tiles) ==
    IF tiles = <<>> THEN sp
    ELSE RegisterAll(Register(sp, TilePath(Head(tiles))), Tail(tiles))

\* The persona states of this part: State.VisionRadius, AttentionBandwidth
\* and Retention as the saved state gives them.
PerStates ==
    [name : {"Ann"}, VisionRadius : {1, 2}, AttentionBandwidth : {1, 2}, Retention : {1, 2}]

\* Where Move finds the persona: at the end of the sofa, in the corridor,
\* at the desk and in the kitchen.
PerPositions == {TilePos(2, 0), TilePos(0, 1), TilePos(1, 1), TilePos(2, 1)}

\* No pass has run.
NoPass == [ran |-> FALSE]

InitPer ==
    /\ store = NewAssociative
    /\ per \in {[op |-> "loaded", state |-> s, tileEvents |-> te,
                    spatialMemory |-> NewSpatial, passes |-> 0, pass |-> NoPass] :
                   s \in PerStates, te \in TileEvents}

\* One call of percieve, with the position Move was given, over the events
\* the tiles hold.
Percieve ==
    /\ per.op \in {"loaded", "percieved"}
    /\ per.passes < MaxPasses
    /\ \E position \in PerPositions :
          \E sorted \in SortedPercepts(perceptEvents(per.tileEvents, position,
                                                      per.state.VisionRadius)) :
             LET events == percievedEvents(sorted, per.state.AttentionBandwidth)
                 mem == PercieveLoop([store |-> store, memories |-> <<>>], events,
                                     per.state.name, per.state.Retention)
             IN  /\ store' = mem.store
                 /\ per' = [per EXCEPT
                               !.op = "percieved",
                               !.spatialMemory =
                                   RegisterAll(@, nearbyTiles(PerMaze, position,
                                                              per.state.VisionRadius)),
                               !.passes = @ + 1,
                               !.pass = [ran |-> TRUE, Position |-> position,
                                         before |-> store,
                                         percievedEvents |-> events,
                                         memories |-> mem.memories]]
    /\ UNCHANGED <<pathVars, retryVars, refl, day, srv, spatial, txt, ret, exe, ltp, conv, wts, walk, cool>>

(***************************************************************************)
(* PART 13.  Long-term planning over several days: the new-day test of     *)
(* Persona.Move, plan's call of longTermPlanning, reviseIdentity and the   *)
(* plan thought.  Times are seconds since the midnight that starts day 0;  *)
(* the zero time.Time is ZeroTime.                                         *)
(***************************************************************************)

\* Move is run at most this many times.
MaxLtpMoves == 4

NewDayTypeNoNewDay == "NoNewDay"

NewTypeDayFirstDay == "FirstDay"

NewDayTypeNewDay == "NewDay"

\* time.Time.Date: the calendar day a time falls on.
Date(t) == t \div (24 * 3600)

\* isDifferentDate as it would be if it asked for a full day between the
\* two times.
isDifferentDateByElapsed(a, b) == b - a >= 24 * 3600

\* isDifferentDate
isDifferentDate(a, b) == Date(a) # Date(b)

\* The new-day test at the start of Move.
NewDayOf(stored, currTime) ==
    IF stored = ZeroTime THEN NewTypeDayFirstDay
    ELSE IF isDifferentDate(stored, currTime) THEN NewDayTypeNewDay
    ELSE NewDayTypeNoNewDay

\* A thought of the store with the fields this part reads.
LtpThought(predicate, created, expiration) ==
    [Predicate |-> predicate, Created |-> created, Expiration |-> expiration]

\* Persona.reviseIdentity: the retrieval for its two focal points panics on
\* a memory without a candidate; otherwise the plans and the daily
\* requirements are rewritten.
reviseIdentity(p) ==
    IF p.thoughts = <<>>
    THEN [p EXCEPT !.outcome = "panic: map has NaN min (NaN) or max (NaN) value"]
    ELSE [p EXCEPT !.revisions = @ + 1]

\* Persona.longTermPlanning for the given kind of day, hourly being the
\* answer of GenerateHourlySchedule.
longTermPlanningOn(p, newDay, hourly) ==
    LET planned(q) ==
            IF q.outcome # "ok" THEN q
            ELSE [q EXCEPT
                     !.DailySchedule = hourly,
                     !.OriginalDailySchedule = hourly,
                     !.thoughts = Append(@, LtpThought("plan", q.CurrentTime,
                                                      q.CurrentTime + 30 * 24 * 3600))]
    IN  IF newDay = NewTypeDayFirstDay THEN planned(p)
        ELSE IF newDay = NewDayTypeNewDay THEN planned(reviseIdentity(p))
        ELSE [p EXCEPT !.outcome = "panic: this should be unreachable"]

\* determineActivity's replacement of the schedule entry of the current
\* hour by its decomposition (two halves here).
DecomposeFirst(schedule) ==
    <<Plan(schedule[1].Activity, schedule[1].Duration \div 2),
      Plan(schedule[1].Activity, schedule[1].Duration - schedule[1].Duration \div 2)>>
        \o Tail(schedule)

\* The world times of the Moves: an early and a late hour of three days.
LtpTimes == {d * 24 * 3600 + h * 3600 : d \in 0..2, h \in {1, 23}}

LtpNoMove == [ran |-> FALSE]

\* The persona as the loader leaves it: a new one, or a saved one with its
\* time and its store.
InitLtp ==
    \E stored \in {ZeroTime, 3600}, older \in BOOLEAN, world \in {3600, 23 * 3600} :
        ltp = [op |-> "run",
               p |-> [CurrentTime |-> stored, DailySchedule |-> <<>>,
                      OriginalDailySchedule |-> <<>>,
                      thoughts |-> IF older THEN <<LtpThought("memo", 0, ZeroTime)>>
                                   ELSE <<>>,
                      revisions |-> 0, outcome |-> "ok"],
               world |-> world, moves |-> 0, planned |-> <<>>, last |-> LtpNoMove]

\* Persona.Move as far as this part goes: the new-day test, the clock, and
\* plan with longTermPlanning and determineActivity.  The world time of
\* the next Move is not earlier than this one's.
LtpMove ==
    /\ ltp.op = "run"
    /\ ltp.moves < MaxLtpMoves
    /\ \E next \in {t \in LtpTimes : t >= ltp.world}, hourly \in SrvSchedules,
          decompose \in BOOLEAN :
          LET newDay == NewDayOf(ltp.p.CurrentTime, ltp.world)
              timed == [ltp.p EXCEPT !.CurrentTime = ltp.world]
              planned == IF newDay # NewDayTypeNoNewDay
                         THEN longTermPlanningOn(timed, newDay, hourly)
                         ELSE timed
              done == IF planned.outcome = "ok" /\ decompose
                           /\ planned.DailySchedule # <<>>
                      THEN [planned EXCEPT !.DailySchedule = DecomposeFirst(@)]
                      ELSE planned
          IN  ltp' = [op |-> IF done.outcome = "ok" THEN "run" ELSE "panicked",
                      p |-> done,
                      world |-> next,
                      moves |-> ltp.moves + 1,
                      planned |-> IF newDay # NewDayTypeNoNewDay /\ planned.outcome = "ok"
                                  THEN Append(ltp.planned, Date(ltp.world))
                                  ELSE ltp.planned,
                      last |-> [ran |-> TRUE, stored |-> ltp.p.CurrentTime,
                                currTime |-> ltp.world, newDay |-> newDay,
                                before |-> ltp.p, afterPlanning |-> planned]]
    /\ UNCHANGED <<pathVars, retryVars, memoryVars, day, srv, spatial, txt, ret, exe, per, conv, wts, walk, cool>>

(***************************************************************************)
(* PART 14.  Persona.iterativeGenerateConversation: the loop that asks the *)
(* initiator and the target in turn for one utterance.  A sentence is held *)
(* as its length in bytes; ended keeps, utterance by utterance, the flag   *)
(* GenerateOneUtterance returned with it.                                  *)
(***************************************************************************)

\* The `8` of `for i := 0; i < 8; i += 1`.
ConversationRounds == 8

\* len(s) of a persona name of this model.
NameLen(name) == 3

\* Lengths of the sentences the cognition capability answers with.
SentenceLens == {10, 240}

\* Client.GenerateOneUtterance: the speaker is the persona that was asked.
GenerateOneUtterance(init, sentence) == [Speaker |-> init, Sentence |-> sentence]

\* The return of iterativeGenerateConversation.
ConversationReturn(c) ==
    [c EXCEPT !.op = "returned", !.duration = (c.length \div 8) \div 30]

\* One call of generateUtterance and what the loop does with its result,
\* as it would be if the target's flag did not end the loop.
conversationTurnInitiatorEnds(c, sentence, done) ==
    LET asked == IF c.turn = "init" THEN c.p ELSE c.target
        said == [c EXCEPT !.chat = Append(@, GenerateOneUtterance(asked, sentence)),
                          !.ended = Append(@, done)]
    IN  IF done /\ c.turn = "init" THEN ConversationReturn(said)
        ELSE IF c.turn = "init" THEN [said EXCEPT !.turn = "target"]
        ELSE IF c.i + 1 < ConversationRounds
        THEN [said EXCEPT !.turn = "init", !.i = c.i + 1,
                          !.length = c.length + NameLen(asked) + sentence + 3]
        ELSE ConversationReturn(
                 [said EXCEPT !.i = c.i + 1,
                              !.length = c.length + NameLen(asked) + sentence + 3])

\* One call of generateUtterance and what the loop does with its result:
\* append, break when done, count the length after the target's turn, and
\* leave the loop after ConversationRounds rounds.
conversationTurn(c, sentence, done) ==
    LET asked == IF c.turn = "init" THEN c.p ELSE c.target
        said == [c EXCEPT !.chat = Append(@, GenerateOneUtterance(asked, sentence)),
                          !.ended = Append(@, done)]
    IN  IF done THEN ConversationReturn(said)
        ELSE IF c.turn = "init" THEN [said EXCEPT !.turn = "target"]
        ELSE IF c.i + 1 < ConversationRounds
        THEN [said EXCEPT !.turn = "init", !.i = c.i + 1,
                          !.length = c.length + NameLen(asked) + sentence + 3]
        ELSE ConversationReturn(
                 [said EXCEPT !.i = c.i + 1,
                              !.length = c.length + NameLen(asked) + sentence + 3])

\* chatReact calls iterativeGenerateConversation for an initiator and its
\* target.
InitConv ==
    \E p \in SrvNames, target \in SrvNames :
        /\ p # target
        /\ conv = [op |-> "run", p |-> p, target |-> target, i |-> 0, turn |-> "init",
                   chat |-> <<>>, ended |-> <<>>, length |-> 0, duration |-> 0]

\* One utterance of the conversation.
ConversationTurn ==
    /\ conv.op = "run"
    /\ \E sentence \in SentenceLens, done \in BOOLEAN :
          conv' = conversationTurn(conv, sentence, done)
    /\ UNCHANGED <<pathVars, retryVars, memoryVars, day, srv, spatial, txt, ret, exe, per, ltp, wts, walk, cool>>

(***************************************************************************)
(* PART 15.  The four retrieval weights of a persona between scratch.json  *)
(* (PersonaState: recency_w, importance_w, relevance_w, valence_w) and     *)
(* agent.State: LoadState and savePersonaState.                            *)
(***************************************************************************)

\* Values of a weight in a scratch.json.
WeightValues == {0, 1, 2, 3}

\* PersonaState, the weights of a scratch.json.
PersonaStates == [recency_w : WeightValues, importance_w : WeightValues, relevance_w : WeightValues, valence_w : WeightValues]

\* LoadState as it would be with every weight read from its own field.
LoadStateEachField(scratch) ==
    [RecencyWeight |-> scratch.recency_w,
     ImportanceWeight |-> scratch.importance_w,
     RelevanceWeight |-> scratch.relevance_w,
     ValenceWeight |-> scratch.valence_w]

\* LoadState: the weights of the State literal.
LoadState(scratch) ==
    [RecencyWeight |-> scratch.recency_w,
     ImportanceWeight |-> scratch.importance_w,
     RelevanceWeight |-> scratch.recency_w,
     ValenceWeight |-> scratch.valence_w]

\* savePersonaState: the weights of the PersonaState literal.
savePersonaState(state) ==
    [recency_w |-> state.RecencyWeight,
     importance_w |-> state.ImportanceWeight,
     relevance_w |-> state.RelevanceWeight,
     valence_w |-> state.ValenceWeight]

\* The weights a simulation is configured with.
InitWts ==
    \E scratch \in PersonaStates :
        wts = [op |-> "file", scratch |-> scratch, state |-> LoadStateEachField(scratch),
               loadedFrom |-> scratch, savedFrom |-> LoadStateEachField(scratch)]

\* LoadPersona reads the scratch.json of the persona.
DoLoadState ==
    /\ wts.op \in {"file", "saved"}
    /\ wts' = [wts EXCEPT !.op = "loaded", !.state = LoadState(wts.scratch),
                          !.loadedFrom = wts.scratch]
    /\ UNCHANGED <<pathVars, retryVars, memoryVars, day, srv, spatial, txt, ret, exe, per, ltp, conv, walk, cool>>

\* SaveSimulation writes the scratch.json of the persona.
DoSavePersonaState ==
    /\ wts.op = "loaded"
    /\ wts' = [wts EXCEPT !.op = "saved", !.scratch = savePersonaState(wts.state),
                          !.savedFrom = wts.state]
    /\ UNCHANGED <<pathVars, retryVars, memoryVars, day, srv, spatial, txt, ret, exe, per, ltp, conv, walk, cool>>

(***************************************************************************)
(* PART 16.  A persona walking: Persona.execute called step after step,    *)
(* the orchestrator putting the persona on the tile each call returned,    *)
(* with activity changes (plan), chats (another persona's or its own       *)
(* chatReact) and random targets in between.                               *)
(***************************************************************************)

\* Move is run at most this many times.
MaxWalkMoves == 2

\* The mazes a persona walks in.
WalkMazes == {m \in SmallMazes : m.height = 2 /\ m.width = 3}

\* The addresses of this part: a place, another persona, a random tile of
\* an arena.
WalkAddresses ==
    {HomeAddress, SpecialPath("persona", <<"Bob">>), SpecialPath("random", <<"the_ville">>)}

\* The persona branch of execute: the tile halfway to the other persona.
PersonaTargetTiles(m, position, targetPersonaPos) ==
    LET halfway(potentialPath, half) ==
            IF Len(potentialPath) <= 2 THEN <<potentialPath[1]>>
            ELSE IF Len(Pathfind(m, position, potentialPath[half + 1]).path)
                        <= Len(Pathfind(m, position, potentialPath[half + 2]).path)
            THEN <<potentialPath[half + 1]>>
            ELSE <<potentialPath[half + 2]>>
        towards(potentialPath) == halfway(potentialPath, Len(potentialPath) \div 2)
    IN  towards(Pathfind(m, position, targetPersonaPos).path)

\* Maze.PathToTiles in the mazes of this part: the place is two opposite
\* corners, the arena the upper row.
WalkPathToTiles(m, plan) ==
    IF HasState(plan, "random") THEN {t \in Tiles(m) : t.Y = 0}
    ELSE {TilePos(0, 0), TilePos(m.width - 1, m.height - 1)}

\* The candidate lists execute can come to for an address after
\* sample(targetTiles, 4): one tile towards the persona, one tile of the
\* arena (sample(t, 1)), or the tiles of the place.
WalkTargetTiles(m, s) ==
    IF HasState(s.ActivityAddress, "persona")
    THEN {PersonaTargetTiles(m, s.Position, other) : other \in Tiles(m)}
    ELSE IF HasState(s.ActivityAddress, "random")
    THEN UNION {Sample({t}, sampleSize) : t \in WalkPathToTiles(m, s.ActivityAddress)}
    ELSE Sample(WalkPathToTiles(m, s.ActivityAddress), sampleSize)

\* Whether execute plans a path for s.
WalkPlans(s) ==
    \/ ~s.ActivityPathSet
    \/ HasState(s.ActivityAddress, "random") /\ Len(s.PlannedPath) = 0

\* Persona.execute: a random address whose path is used up is planned
\* again; a path is planned when none is set; one tile of it is taken.
WalkExecute(m, s, targetTiles, busy) ==
    LET reset == IF HasState(s.ActivityAddress, "random") /\ Len(s.PlannedPath) = 0
                 THEN [s EXCEPT !.ActivityPathSet = FALSE]
                 ELSE s
    IN  execute(reset, Tiles(m), ChooseTarget(m, s.Position, targetTiles, busy).path)

WalkNoMove == [ran |-> FALSE]

\* The persona where the environment file puts it, with no activity yet.
InitWalk ==
    \E m \in WalkMazes : \E pos \in Tiles(m) :
        walk = [op |-> "run", maze |-> m,
                s |-> [Position |-> pos, PlannedPath |-> <<>>, ActivityPathSet |-> FALSE,
                       ActivityAddress |-> HomeAddress, outcome |-> "ok"],
                moves |-> 0, last |-> WalkNoMove]

\* One step for the persona: plan keeps the activity or sets another one
\* (SetActivity, SetChatActivity: ActivityPathSet = false), execute returns
\* a tile, and the last loop of ExecuteStep puts the persona on it.
WalkMove ==
    /\ walk.op = "run"
    /\ walk.moves < MaxWalkMoves
    /\ \E address \in WalkAddresses \cup {walk.s.ActivityAddress} :
          LET changed == address # walk.s.ActivityAddress
              planned == IF changed
                         THEN [walk.s EXCEPT !.ActivityAddress = address,
                                             !.ActivityPathSet = FALSE]
                         ELSE walk.s
          IN  \E targetTiles \in IF WalkPlans(planned)
                                  THEN WalkTargetTiles(walk.maze, planned) ELSE {<<>>},
                 busy \in IF WalkPlans(planned) THEN {{}, {TilePos(0, 0)}} ELSE {{}} :
                 \E ex \in {WalkExecute(walk.maze, planned, targetTiles, busy)} :
                     walk' = [walk EXCEPT
                                 !.s = [ex.state EXCEPT !.Position = ex.tile],
                                 !.moves = walk.moves + 1,
                                 !.last = [ran |-> TRUE, from |-> walk.s.Position,
                                           tile |-> ex.tile, changed |-> changed,
                                           replanned |-> WalkPlans(planned)]]
    /\ UNCHANGED <<pathVars, retryVars, memoryVars, day, srv, spatial, txt, ret, exe, per, ltp, conv, wts, cool>>

(***************************************************************************)
(* PART 17.  The chat cooldown: ExecuteStep after ExecuteStep over two     *)
(* personas that stand in sight of each other, each step as one action     *)
(* (skipSleep, the two Moves, the clock), followed for more than one       *)
(* cooldown.  What is left to chance is drawn once, when the simulation    *)
(* is loaded.                                                              *)
(***************************************************************************)

\* ExecuteStep is run at most this many times.
MaxCoolSteps == 805

\* Answers of GenerateHourlySchedule in this part: asleep after fourteen
\* hours, after two, or after three.
CoolSchedules ==
    { <<Plan("work", 840), Plan("sleeping", 300), Plan("work", 300)>>,
      <<Plan("work", 120), Plan("sleeping", 300), Plan("work", 600), Plan("rest", 420)>>,
      <<Plan("work", 180), Plan("sleeping", 300), Plan("work", 540), Plan("rest", 420)>> }

\* meta.SecondsPerStep of this part.
CoolTimeSteps == {60}

\* GenerateDecideToTalk: a persona's answers are no before a step of its
\* own and yes from that step on: the first step, the third, or none.
CoolFrom == {1, 3, MaxCoolSteps + 1}

\* What is remembered of a persona's last Move: whether its plan started a
\* chat and with whom, its ChattingWithBuffer when shouldReact was called,
\* the step of the chat it had started before that one (0: none), and
\* whether skipSleep has reset the buffers since then.
NoCoolMove == [kind |-> "none", with |-> "", before |-> [k \in {} |-> 0],
               prevInit |-> 0, resetBetween |-> FALSE]

\* The server as the loader leaves it, with the order in which the Personas
\* map is ranged over and the hourly schedules the personas will be given.
NewCoolServer(order, hourly, from, timeStep) ==
    [pc |-> "idle", outcome |-> "ok", Step |-> 0, CurrentTime |-> 0, TimeStep |-> timeStep,
     personas |-> [n \in SrvNames |-> NewState(n, SrvStart[n])],
     mem |-> [n \in SrvNames |-> {}],
     order |-> order, hourly |-> hourly, from |-> from,
     lastInit |-> [n \in SrvNames |-> 0],
     reset |-> [n \in SrvNames |-> FALSE],
     last |-> [n \in SrvNames |-> NoCoolMove]]

InitCool ==
    \E order \in OrdersOf(SrvNames), hourly \in [SrvNames -> CoolSchedules],
       from \in [SrvNames -> CoolFrom], timeStep \in CoolTimeSteps :
        cool = NewCoolServer(order, hourly, from, timeStep)

\* persona.Move of `name` in step number n (the personas perceive each
\* other in every step): plan as far as determineActivity, the chat
\* reaction when shouldReact and letsTalk allow it and the cognition
\* capability agrees, plan's cleanup, execute, and the new tile.
CoolMove(c, name, n) ==
    LET other == CHOOSE o \in Names(c) \ {name} : TRUE
        moved(sv, cleaned, ex, kind, before) ==
            IF ex.state.outcome # "ok" \/ sv.personas[other].outcome # "ok"
            THEN [sv EXCEPT !.personas[name] = ex.state, !.pc = "panicked",
                            !.outcome = IF ex.state.outcome # "ok" THEN ex.state.outcome
                                        ELSE sv.personas[other].outcome]
            ELSE [sv EXCEPT
                     !.personas[name] = [ex.state EXCEPT !.Position = ex.tile],
                     !.mem[name] = sv.mem[name] \cup ChatThoughts(cleaned),
                     !.lastInit[name] = IF kind = "chat" THEN n ELSE c.lastInit[name],
                     !.reset[name] = IF kind = "chat" THEN FALSE ELSE c.reset[name],
                     !.last[name] = [kind |-> kind, with |-> other, before |-> before,
                                     prevInit |-> c.lastInit[name],
                                     resetBetween |-> c.reset[name]]]
        finish(sv, s, kind, before) ==
            IF s.outcome # "ok"
            THEN [sv EXCEPT !.personas[name] = s, !.pc = "panicked", !.outcome = s.outcome]
            ELSE moved(sv, planCleanup(s),
                       SrvExecute(planCleanup(s), [sv.personas EXCEPT ![name] = planCleanup(s)]),
                       kind, before)
        chat(started, r) == finish([r.sv EXCEPT !.mem[name] = r.mem], r.state, "chat",
                                   started.ChattingWithBuffer)
        plan(started) ==
            IF /\ started.outcome = "ok"
               /\ n >= c.from[name]
               /\ InitiatorMayTalk(started, other)
               /\ TargetMayTalk(c.personas[other])
            THEN chat(started, chatReact(c, name, started, c.mem[name], other, 15, 3, "single"))
            ELSE finish(c, started, "move", started.ChattingWithBuffer)
    IN  plan(planStart(c.personas[name], c.CurrentTime,
                       IF c.personas[name].CurrentTime = ZeroTime THEN c.hourly[name]
                       ELSE c.personas[name].OriginalDailySchedule,
                       "halves", HomeAddress))

\* Server.ExecuteStep: skipSleep, the Moves in the order of the range, the
\* clock and the step counter.  A panic ends the program.
CoolStep(c) ==
    LET n == c.Step + 1
        ended(sv) == IF sv.pc = "panicked" THEN sv
                     ELSE [sv EXCEPT !.CurrentTime = sv.CurrentTime + sv.TimeStep,
                                     !.Step = sv.Step + 1]
        second(sv) == IF sv.pc = "panicked" THEN sv
                      ELSE ended(CoolMove(sv, c.order[2], n))
        first(sv) == IF sv.pc = "panicked" THEN sv
                     ELSE second(CoolMove(sv, c.order[1], n))
        skipped(sv) ==
            first(IF sv.CurrentTime # c.CurrentTime
                  THEN [sv EXCEPT !.reset = [k \in Names(c) |-> TRUE]]
                  ELSE sv)
    IN  skipped(skipSleep(c, c.order))

CoolExecuteStep ==
    /\ cool.pc = "idle"
    /\ cool.Step < MaxCoolSteps
    /\ cool' = CoolStep(cool)
    /\ UNCHANGED <<pathVars, retryVars, memoryVars, day, srv, spatial, txt, ret, exe, per, ltp, conv, wts, walk>>

(***************************************************************************)
(* Idle values: what a part's variables hold in the specifications of the  *)
(* other parts.                                                            *)
(***************************************************************************)

PathIdle ==
    /\ maze = [height |-> 1, width |-> 1, collisionInfo |-> [c \in Cells(1, 1) |-> FALSE]]
    /\ pfStart = TilePos(0, 0)
    /\ pfEnd = TilePos(0, 0)
    /\ pfResult = NoCall

RetryIdle == llmSeq = 0 /\ call = NoCallYet

StoreIdle == store = NewAssociative

ReflIdle ==
    refl = [pc |-> "idle", CurrentReflectionTrigger |-> 0, ReflectionTrigger |-> 0,
            ReflectionElements |-> 0, ran |-> FALSE,
            before |-> [trigger |-> 0, memories |-> 0]]

DayIdle ==
    day = [p |-> NewState("Ann", TilePos(0, 0)), lastOp |-> "idle", sumBefore |-> 0,
           plan |-> NoPlanPhase, ops |-> 0]

SrvIdle == srv = [pc |-> "idle"]

SpatialIdle == spatial = [op |-> "idle"]

TextIdle == txt = [op |-> "idle"]

RetIdle == ret = [op |-> "idle"]

ExeIdle == exe = [op |-> "idle"]

PerIdle == per = [op |-> "idle"]

LtpIdle == ltp = [op |-> "idle"]

ConvIdle == conv = [op |-> "idle"]

WtsIdle == wts = [op |-> "idle"]

WalkIdle == walk = [op |-> "idle"]

CoolIdle == cool = [op |-> "idle"]

OtherIdle == SpatialIdle /\ TextIdle /\ RetIdle /\ ExeIdle

\* The pathfinder, called once on every small maze and end points.
InitSpecPath == InitPath /\ RetryIdle /\ StoreIdle /\ ReflIdle /\ DayIdle /\ SrvIdle /\ OtherIdle /\ PerIdle /\ LtpIdle /\ ConvIdle /\ WtsIdle /\ WalkIdle /\ CoolIdle

NextPath == DoPathfind

SpecPath == InitSpecPath /\ [][NextPath]_vars

\* The retry loop of the cognition client.
InitSpecRetry == PathIdle /\ RetryIdle /\ StoreIdle /\ ReflIdle /\ DayIdle /\ SrvIdle /\ OtherIdle /\ PerIdle /\ LtpIdle /\ ConvIdle /\ WtsIdle /\ WalkIdle /\ CoolIdle

NextRetry == StartCall \/ StartCallTemplateError \/ Attempt \/ Exhaust

SpecRetry == InitSpecRetry /\ [][NextRetry]_vars

\* The associative store under AddEvent, AddThought and AddChat.
InitSpecStore == PathIdle /\ RetryIdle /\ InitStore /\ ReflIdle /\ DayIdle /\ SrvIdle /\ OtherIdle /\ PerIdle /\ LtpIdle /\ ConvIdle /\ WtsIdle /\ WalkIdle /\ CoolIdle

NextStore == DoAddEvent \/ DoAddThought \/ DoAddChat

SpecStore == InitSpecStore /\ [][NextStore]_vars

\* The phases of Move over the store and the reflection counters.
InitSpecReflect == PathIdle /\ RetryIdle /\ InitRefl /\ DayIdle /\ SrvIdle /\ OtherIdle /\ PerIdle /\ LtpIdle /\ ConvIdle /\ WtsIdle /\ WalkIdle /\ CoolIdle

NextReflect == PhasePerceive \/ PhasePlan \/ PhaseReflect \/ PhaseExecute

SpecReflect == InitSpecReflect /\ [][NextReflect]_vars

\* One persona's day.
InitSpecDay == PathIdle /\ RetryIdle /\ StoreIdle /\ ReflIdle /\ InitDay /\ SrvIdle /\ OtherIdle /\ PerIdle /\ LtpIdle /\ ConvIdle /\ WtsIdle /\ WalkIdle /\ CoolIdle

NextDay == DayMove \/ DayMoveChat \/ DayMoveWait \/ DayChatTarget

SpecDay == InitSpecDay /\ [][NextDay]_vars

\* ExecuteStep over two personas.
InitSpecStep == PathIdle /\ RetryIdle /\ StoreIdle /\ ReflIdle /\ DayIdle /\ InitSrv /\ OtherIdle /\ PerIdle /\ LtpIdle /\ ConvIdle /\ WtsIdle /\ WalkIdle /\ CoolIdle

NextStep == SrvStepStart \/ SrvMove \/ SrvMoveChat \/ SrvMoveWait \/ SrvCommit

SpecStep == InitSpecStep /\ [][NextStep]_vars

\* The text form of paths.
InitSpecText == PathIdle /\ RetryIdle /\ StoreIdle /\ ReflIdle /\ DayIdle /\ SrvIdle /\ SpatialIdle /\ InitText /\ RetIdle /\ ExeIdle /\ PerIdle /\ LtpIdle /\ ConvIdle /\ WtsIdle /\ WalkIdle /\ CoolIdle

NextText == DoFormatParse \/ DoParse \/ DoWait

SpecText == InitSpecText /\ [][NextText]_vars

\* The spatial memory.
InitSpecSpatial == PathIdle /\ RetryIdle /\ StoreIdle /\ ReflIdle /\ DayIdle /\ SrvIdle /\ InitSpatial /\ TextIdle /\ RetIdle /\ ExeIdle /\ PerIdle /\ LtpIdle /\ ConvIdle /\ WtsIdle /\ WalkIdle /\ CoolIdle

NextSpatial == DoRegister

SpecSpatial == InitSpecSpatial /\ [][NextSpatial]_vars

\* The choice of a target tile.
InitSpecExe == PathIdle /\ RetryIdle /\ StoreIdle /\ ReflIdle /\ DayIdle /\ SrvIdle /\ SpatialIdle /\ TextIdle /\ RetIdle /\ InitExe /\ PerIdle /\ LtpIdle /\ ConvIdle /\ WtsIdle /\ WalkIdle /\ CoolIdle

NextExe == DoChooseTarget

SpecExe == InitSpecExe /\ [][NextExe]_vars

\* The retrieval for one focal point.
InitSpecRetrieve == PathIdle /\ RetryIdle /\ StoreIdle /\ ReflIdle /\ DayIdle /\ SrvIdle /\ SpatialIdle /\ TextIdle /\ InitRet /\ ExeIdle /\ PerIdle /\ LtpIdle /\ ConvIdle /\ WtsIdle /\ WalkIdle /\ CoolIdle

NextRetrieve == DoRetrieve \/ DoRetrieveNothing

SpecRetrieve == InitSpecRetrieve /\ [][NextRetrieve]_vars

\* The node log over Add* calls and retrievals.
InitSpecLog == PathIdle /\ RetryIdle /\ InitLog /\ ReflIdle /\ DayIdle /\ SrvIdle /\ SpatialIdle /\ TextIdle /\ ExeIdle /\ PerIdle /\ LtpIdle /\ ConvIdle /\ WtsIdle /\ WalkIdle /\ CoolIdle

NextLog == LogAddEvent \/ LogAddThought \/ LogAddChat \/ LogRetrieve \/ LogRetrieveNothing

SpecLog == InitSpecLog /\ [][NextLog]_vars

\* Perceive passes of one persona over a memory that starts empty.
InitSpecPer == PathIdle /\ RetryIdle /\ InitPer /\ ReflIdle /\ DayIdle /\ SrvIdle /\ SpatialIdle /\ TextIdle /\ RetIdle /\ ExeIdle /\ LtpIdle /\ ConvIdle /\ WtsIdle /\ WalkIdle /\ CoolIdle

NextPer == Percieve

SpecPer == InitSpecPer /\ [][NextPer]_vars

InitSpecLtp == PathIdle /\ RetryIdle /\ StoreIdle /\ ReflIdle /\ DayIdle /\ SrvIdle /\ OtherIdle /\ PerIdle /\ InitLtp /\ ConvIdle /\ WtsIdle /\ WalkIdle /\ CoolIdle

NextLtp == LtpMove

SpecLtp == InitSpecLtp /\ [][NextLtp]_vars

\* ExecuteStep over two personas with steps of at most 10 seconds.
InitSpecTalk == PathIdle /\ RetryIdle /\ StoreIdle /\ ReflIdle /\ DayIdle /\ InitSrvTalk /\ OtherIdle /\ PerIdle /\ LtpIdle /\ ConvIdle /\ WtsIdle /\ WalkIdle /\ CoolIdle

NextTalk == SrvStepStart \/ SrvMove \/ SrvMoveChat \/ SrvMoveWait \/ SrvCommit

SpecTalk == InitSpecTalk /\ [][NextTalk]_vars

\* One conversation.
InitSpecConv == PathIdle /\ RetryIdle /\ StoreIdle /\ ReflIdle /\ DayIdle /\ SrvIdle /\ OtherIdle /\ PerIdle /\ LtpIdle /\ InitConv /\ WtsIdle /\ WalkIdle /\ CoolIdle

NextConv == ConversationTurn

SpecConv == InitSpecConv /\ [][NextConv]_vars

\* The weights of one persona over loads and saves.
InitSpecWeights == PathIdle /\ RetryIdle /\ StoreIdle /\ ReflIdle /\ DayIdle /\ SrvIdle /\ OtherIdle /\ PerIdle /\ LtpIdle /\ ConvIdle /\ InitWts /\ WalkIdle /\ CoolIdle

NextWeights == DoLoadState \/ DoSavePersonaState

SpecWeights == InitSpecWeights /\ [][NextWeights]_vars

\* One persona walking.
InitSpecWalk == PathIdle /\ RetryIdle /\ StoreIdle /\ ReflIdle /\ DayIdle /\ SrvIdle /\ OtherIdle /\ PerIdle /\ LtpIdle /\ ConvIdle /\ WtsIdle /\ InitWalk /\ CoolIdle

NextWalk == WalkMove

SpecWalk == InitSpecWalk /\ [][NextWalk]_vars

\* The chat cooldown over many steps.
InitSpecCool == PathIdle /\ RetryIdle /\ StoreIdle /\ ReflIdle /\ DayIdle /\ SrvIdle /\ OtherIdle /\ PerIdle /\ LtpIdle /\ ConvIdle /\ WtsIdle /\ WalkIdle /\ InitCool

NextCool == CoolExecuteStep

SpecCool == InitSpecCool /\ [][NextCool]_vars

(***************************************************************************)
(* Properties of the pathfinder (SpecPath).                                *)
(***************************************************************************)

Abs(n) == IF n < 0 THEN -n ELSE n

Manhattan(a, b) == Abs(a.X - b.X) + Abs(a.Y - b.Y)

Adjacent(a, b) == Manhattan(a, b) = 1

Collides(m, t) == m.collisionInfo[<<t.Y, t.X>>]

\* The collision-free tiles one 4-neighbour move away from a tile of near.
Frontier(m, near) ==
    {t \in Tiles(m) : ~Collides(m, t) /\ \E u \in near : Adjacent(u, t)}

\* With near the tiles that n or fewer moves from a reach: the fewest moves
\* to b, -1 when the reachable tiles are exhausted before b is met.
RECURSIVE MovesFrom(_, _, _, _)
MovesFrom(m, near, b, n) ==
    IF b \in near THEN n
    ELSE LET next == near \cup Frontier(m, near)
         IN  IF next = near THEN -1 ELSE MovesFrom(m, next, b, n + 1)

\* The fewest 4-neighbour moves from a to b, every tile moved onto being
\* collision-free; -1 when there is no way.  Without collision tiles it is
\* the Manhattan distance.
Moves(m, a, b) ==
    IF \A t \in Tiles(m) : ~Collides(m, t) THEN Manhattan(a, b)
    ELSE MovesFrom(m, {a}, b, 0)

\* b is reached from a: there is a way, of at most loopMax moves.
Reached(m, a, b) == Moves(m, a, b) \in 0..loopMax

\* C2: Pathfind(a, b) for a tile b that is not reached from a (walled off, a
\* collision tile itself, or farther away than the wavefront cap) reports an
\* error instead of returning a path.
C2_UnreachedIsAnError ==
    (pfResult.kind # "none" /\ ~Reached(maze, pfStart, pfEnd)) => pfResult.kind = "error"

\* C3: for b reached from a, Pathfind(a, b) returns a path from a to b whose
\* consecutive tiles are 4-adjacent, with no collision tile after the first,
\* and with the fewest tiles possible (one more than the fewest moves).
C3_ShortestPath ==
    (pfResult.kind # "none" /\ Reached(maze, pfStart, pfEnd)) =>
        /\ pfResult.kind = "path"
        /\ Len(pfResult.path) >= 1
        /\ pfResult.path[1] = pfStart
        /\ Last(pfResult.path) = pfEnd
        /\ \A i \in 1..(Len(pfResult.path) - 1) :
              Adjacent(pfResult.path[i], pfResult.path[i + 1])
        /\ \A i \in 2..Len(pfResult.path) : ~Collides(maze, pfResult.path[i])
        /\ Len(pfResult.path) = Moves(maze, pfStart, pfEnd) + 1

\* A path was returned that goes around a collision tile: it is longer than
\* the Manhattan distance asks for.
C3_Witness ==
    /\ pfResult.kind = "path"
    /\ Reached(maze, pfStart, pfEnd)
    /\ Len(pfResult.path) > Manhattan(pfStart, pfEnd) + 1

\* C14: Pathfind(a, a) returns the single-tile path [a] for every tile a of
\* the maze, a collision tile or not.
C14_SameTile ==
    (pfResult.kind # "none" /\ pfStart = pfEnd) =>
        pfResult = [kind |-> "path", path |-> <<pfStart>>]

\* The query of TestSameSquare: the collision tile (X=1, Y=0) of the fixture
\* maze, as start and as end, answered with that one tile.
C14_Witness ==
    /\ maze = FixtureMaze
    /\ pfStart = TilePos(1, 0) /\ pfEnd = pfStart
    /\ Collides(maze, pfStart)
    /\ pfResult.kind = "path" /\ Len(pfResult.path) = 1

\* The route TestOppositeSideOfMap expects, 22 tiles from (X=0, Y=1) to
\* (X=12, Y=6).
OppositeSideRoute ==
    << TilePos(0, 1), TilePos(1, 1), TilePos(1, 2), TilePos(1, 3), TilePos(1, 4),
       TilePos(2, 4), TilePos(3, 4), TilePos(4, 4), TilePos(5, 4), TilePos(6, 4),
       TilePos(7, 4), TilePos(7, 3), TilePos(7, 2), TilePos(8, 2), TilePos(9, 2),
       TilePos(9, 3), TilePos(9, 4), TilePos(10, 4), TilePos(11, 4), TilePos(11, 5),
       TilePos(11, 6), TilePos(12, 6) >>

\* The neighbours of t in the order north, west, south, east.
NorthWestSouthEast(t) ==
    << TilePos(t.X, t.Y - 1), TilePos(t.X - 1, t.Y), TilePos(t.X, t.Y + 1), TilePos(t.X + 1, t.Y) >>

\* The tile before t on the way from a: the first neighbour of t, in that
\* order, that is one move nearer to a.
StepBack(m, a, t) ==
    LET ns == NorthWestSouthEast(t)
        ok == {i \in 1..4 : ns[i] \in Tiles(m) /\ Moves(m, a, ns[i]) = Moves(m, a, t) - 1}
    IN  ns[CHOOSE i \in ok : \A j \in ok : i <= j]

\* path is the route from a to t that these steps determine, for t reached
\* from a: it ends in t, every tile is the step back of the next one, and it
\* begins with a.
IsRouteTo(m, a, t, path) ==
    /\ Len(path) = Moves(m, a, t) + 1
    /\ path[Len(path)] = t
    /\ \A i \in 1..(Len(path) - 1) : path[i] = StepBack(m, a, path[i + 1])
    /\ path[1] = a

\* C15: on the fixture maze of the tests, Pathfind from (X=0, Y=1) to
\* (X=12, Y=6) returns exactly the 22-tile route of TestOppositeSideOfMap;
\* on every maze the path to a reached tile is the one determined by walking
\* back from the end to a neighbour that is exactly one nearer to the start,
\* trying north, then west, then south, then east.
C15_FixtureRoute ==
    /\ (pfResult.kind # "none" /\ maze = FixtureMaze
            /\ pfStart = TilePos(0, 1) /\ pfEnd = TilePos(12, 6)) =>
        pfResult = [kind |-> "path", path |-> OppositeSideRoute]
    /\ (pfResult.kind # "none" /\ Reached(maze, pfStart, pfEnd)) =>
        pfResult.kind = "path" /\ IsRouteTo(maze, pfStart, pfEnd, pfResult.path)

\* The fixture query was answered with a path of 22 tiles.
C15_Witness ==
    /\ maze = FixtureMaze
    /\ pfStart = TilePos(0, 1) /\ pfEnd = TilePos(12, 6)
    /\ pfResult.kind = "path" /\ Len(pfResult.path) = 22

(***************************************************************************)
(* Properties of the retry loop (SpecRetry).  call.log holds one entry per *)
(* attempt of the call: the prompt text sent and what came back.           *)
(***************************************************************************)

\* The response of attempt i decoded and passed the caller's validation.
Accepted(i) ==
    \/ call.log[i].resp = "valid"
    \/ call.log[i].resp = "invalid" /\ ~call.hasValidation

\* The response of attempt i failed to decode, or failed the validation.
Rejected(i) ==
    \/ call.log[i].resp = "badjson"
    \/ call.log[i].resp = "invalid" /\ call.hasValidation

\* C4: one call makes at most maxRetries attempts; an attempt whose response
\* decodes and passes validation is the last and the call returns success;
\* an attempt that fails in the transport is the last and the call returns
\* that error.
C4_BoundedAttempts ==
    /\ Len(call.log) <= maxRetries
    /\ \A i \in 1..Len(call.log) :
          /\ Accepted(i) =>
                (i = Len(call.log) /\ call.pc = "returned" /\ call.result = "ok")
          /\ call.log[i].resp = "transport" =>
                (i = Len(call.log) /\ call.pc = "returned"
                    /\ call.result = "could not execute prompt")

\* A call that failed validation four times returned the transport error of
\* its fifth attempt.
C4_Witness ==
    /\ call.pc = "returned"
    /\ Len(call.log) = maxRetries
    /\ call.log[maxRetries].resp = "transport"
    /\ \A i \in 1..(maxRetries - 1) : Rejected(i)

\* C5: a decoding or validation failure on attempt k < maxRetries is followed
\* by attempt k+1 with the same prompt text (the call is still running until
\* that attempt is made), and when all maxRetries attempts fail this way the
\* call returns an error that wraps the last failure.
C5_FailureIsRetried ==
    \A i \in 1..Len(call.log) :
        Rejected(i) =>
            /\ (i < Len(call.log)) => call.log[i + 1].prompt = call.log[i].prompt
            /\ (i = Len(call.log) /\ i < maxRetries) => call.pc = "running"
            /\ (i = Len(call.log) /\ i = maxRetries) =>
                  \/ call.pc = "running"
                  \/ call.pc = "returned"
                        /\ call.result = "failed after retries: " \o call.lastErr

(***************************************************************************)
(* Properties of the associative store (SpecStore).                        *)
(***************************************************************************)

\* The positions in the node log of the nodes of a type; every Add* call
\* appends one node of its type to the log.
NodesOfType(st, type) == {i \in 2..Len(st.nodes) : st.nodes[i].Type = type}

\* C6: after N AddEvent calls, interleaved with AddThought and AddChat calls,
\* GetLatestEventIds() has length N, is strictly decreasing (newest first),
\* and holds no duplicate and no zero id.
C6_LatestEventIds ==
    LET ids == GetLatestEventIds(store)
    IN  /\ Len(ids) = Cardinality(NodesOfType(store, "event"))
        /\ \A i \in 1..(Len(ids) - 1) : ids[i] > ids[i + 1]
        /\ \A i \in 1..Len(ids) : ids[i] # 0
        /\ \A i, j \in 1..Len(ids) : ids[i] = ids[j] => i = j

\* Two events were added with a thought between them.
C6_Witness ==
    /\ Len(GetLatestEventIds(store)) = 2
    /\ Len(store.nodes) = 4
    /\ store.nodes[3].Type = "thought"

\* C7: the k-th node created has id k, whatever Add* call created it: ids
\* start at 1, no node has id 0, no id is given twice, and the lists of
\* events, thoughts and chats hold exactly the ids of their nodes.
C7_NodeIds ==
    /\ \A i \in 2..Len(store.nodes) : store.nodes[i].Id = i - 1
    /\ SeqRange(store.events) = {i - 1 : i \in NodesOfType(store, "event")}
    /\ SeqRange(store.thoughts) = {i - 1 : i \in NodesOfType(store, "thought")}
    /\ SeqRange(store.chats) = {i - 1 : i \in NodesOfType(store, "chat")}
    /\ Len(store.events) + Len(store.thoughts) + Len(store.chats) = Len(store.nodes) - 1

\* A store that holds a node of each type.
C7_Witness ==
    /\ Len(store.events) >= 1
    /\ Len(store.thoughts) >= 1
    /\ Len(store.chats) >= 1

\* The strings looked up: keywords as the store holds them (lower case) and
\* one no node was given.
LookupStrings == {"bob", "idle", "plan", "ann"}

\* The ids of the nodes of one type that carry one of the keywords.
IndexedUnder(st, type, kws) ==
    {st.nodes[i].Id : i \in {j \in NodesOfType(st, type) : SeqRange(st.nodes[j].Keywords) \cap kws # {}}}

\* C17: RetrieveRelevantEvents(s, p, o) returns exactly the ids of the event
\* nodes indexed under keyword s, p or o, RetrieveRelevantThoughts(s, p, o)
\* exactly the ids of the thought nodes indexed under them, and no thought id
\* is in the result of RetrieveRelevantEvents.
C17_RelevantByType ==
    \A s \in LookupStrings, p \in LookupStrings, o \in LookupStrings :
        /\ RetrieveRelevantEvents(store, s, p, o) = IndexedUnder(store, "event", {s, p, o})
        /\ RetrieveRelevantThoughts(store, s, p, o) = IndexedUnder(store, "thought", {s, p, o})
        /\ RetrieveRelevantEvents(store, s, p, o) \cap SeqRange(store.thoughts) = {}

\* C22: every node created by AddEvent, AddThought or AddChat has a
\* TypeCount equal to the number of nodes of its own type that were in the
\* store before it: the i-th chat added has TypeCount i - 1 however many
\* events and thoughts exist.
C22_TypeOrdinal ==
    \A i \in 2..Len(store.nodes) :
        store.nodes[i].TypeCount
            = Cardinality({j \in NodesOfType(store, store.nodes[i].Type) : j < i})

\* The triple is the idle one: predicate "is" and object "idle".
IsIdleTriple(node) == node.Predicate = "is" /\ node.Object = "idle"

\* How many nodes of a type carry keyword k without having the idle triple.
CountedUnder(st, type, k) ==
    Cardinality({i \in NodesOfType(st, type) :
                    k \in SeqRange(st.nodes[i].Keywords) /\ ~IsIdleTriple(st.nodes[i])})

\* C23: AddEvent and AddThought count each keyword of the node in the
\* accumulator of their type unless the node's triple is the idle triple
\* (predicate "is" and object "idle"); a node with predicate "is" and another
\* object, or object "idle" and another predicate, is counted.  AddChat
\* changes neither accumulator.
C23_StrengthSkipsIdleOnly ==
    \A k \in LookupStrings :
        /\ MapGet(store.kwStrengthEvents, k, 0) = CountedUnder(store, "event", k)
        /\ MapGet(store.kwStrengthThoughts, k, 0) = CountedUnder(store, "thought", k)

\* The greatest number of a non-empty set.
SetMax(S) == CHOOSE x \in S : \A y \in S : y <= x

\* The keywords as the callers give them.
GivenKeywords == UNION {SeqRange(kws) : kws \in KeywordLists}

\* The ids of the nodes of a type stored with keyword K, K as it was given.
StoredWith(st, type, K) == IndexedUnder(st, type, {ToLower(K)})

\* C30: a node stored with keyword K is found when the store is asked with
\* the same string K, upper-case letters or not: GetLastChat(K) returns the
\* id of the newest chat stored with K, and RetrieveRelevantThoughts(K, _, _)
\* contains every thought stored with K.
C30_FoundUnderGivenKeyword ==
    \A K \in GivenKeywords :
        /\ StoredWith(store, "chat", K) # {} =>
               GetLastChat(store, K) = [id |-> SetMax(StoredWith(store, "chat", K)), ok |-> TRUE]
        /\ \A p \in LookupStrings, o \in LookupStrings :
               StoredWith(store, "thought", K) \subseteq RetrieveRelevantThoughts(store, K, p, o)

(***************************************************************************)
(* Properties of the reflection trigger (SpecReflect).  refl.before holds  *)
(* the trigger and the number of events and thoughts as the reflect phase  *)
(* found them, refl.ran whether that phase ran a reflection pass.          *)
(***************************************************************************)

\* C8: the reflect phase runs a reflection pass iff the trigger is below 1
\* and the store holds an event or a thought; and when it ran one, at the
\* end of the phase the trigger is back at ReflectionTrigger and
\* ReflectionElements is 0, whatever thoughts the phase added.
C8_ReflectionReset ==
    refl.pc = "reflected" =>
        /\ refl.ran <=> (refl.before.trigger < 1 /\ refl.before.memories # 0)
        /\ refl.ran =>
              /\ refl.CurrentReflectionTrigger = refl.ReflectionTrigger
              /\ refl.ReflectionElements = 0

\* A reflection pass ran on a spent trigger and counted elements, and the
\* phase added thoughts.
C8_Witness ==
    /\ refl.pc = "reflected"
    /\ refl.ran
    /\ refl.before.trigger < 0
    /\ Len(store.thoughts) >= 2
    /\ Len(store.events) >= 1

(***************************************************************************)
(* Properties of a persona's day (SpecDay).  day.lastOp names the last     *)
(* operation on the persona, day.sumBefore the sum of its DailySchedule    *)
(* when the reaction of that operation began.                              *)
(***************************************************************************)

\* The panics of createReact: the index into OriginalDailySchedule, and the
\* slice expressions DailySchedule[:startIndex] and DailySchedule[endIndex:].
SpliceFailures == {"panic: index out of range", "panic: slice bounds out of range"}

\* C1: after every chat or wait reaction, on the initiator or on the target
\* of a chat, the durations of DailySchedule sum to 1440 minutes when they
\* did before the reaction, and the splice does not fail.
C1_SpliceKeepsTheDay ==
    (day.lastOp \in {"chat", "wait", "chatTarget"} /\ day.sumBefore = dayDuration) =>
        /\ day.p.outcome \notin SpliceFailures
        /\ SumDur(day.p.DailySchedule) = dayDuration

\* The plan phase of the last Move called determineActivity.
Determined == day.plan.ran /\ IsActivityFinished(day.plan.planned)

\* C21: whenever determineActivity returns, the durations of DailySchedule
\* sum to exactly 1440 minutes: the decompositions keep the sum of the
\* schedule, a schedule shorter than 24h gets exactly one trailing "sleeping"
\* entry holding the missing minutes, and a schedule longer than 24h aborts
\* the call instead of returning.
C21_DayIsFull ==
    Determined =>
        LET before == day.plan.planned.DailySchedule
            decomposed == day.plan.decomposed
            after == day.plan.started
        IN  /\ SumDur(decomposed) = SumDur(before)
            /\ after.outcome = "ok" => SumDur(after.DailySchedule) = 1440
            /\ (after.outcome = "ok" /\ SumDur(decomposed) < 1440) =>
                   /\ Len(after.DailySchedule) = Len(decomposed) + 1
                   /\ Take(after.DailySchedule, Len(decomposed)) = decomposed
                   /\ after.DailySchedule[Len(after.DailySchedule)]
                          = Plan("sleeping", 1440 - SumDur(decomposed))
            /\ (after.outcome = "ok" /\ SumDur(decomposed) = 1440) =>
                   after.DailySchedule = decomposed
            /\ SumDur(decomposed) > 1440 => after.outcome # "ok"

\* determineActivity has returned after it decomposed an entry and padded a
\* schedule that was too short.
C21_Witness ==
    /\ Determined
    /\ day.plan.started.outcome = "ok"
    /\ day.plan.decomposed # day.plan.planned.DailySchedule
    /\ SumDur(day.plan.decomposed) < 1440

\* The activity of the state is over: no address, or the time has reached
\* the end of the chat when chatting, the end of the activity otherwise.
ActivityIsOver(s) ==
    \/ IsEmpty(s.ActivityAddress)
    \/ s.ChattingWith = "" /\ s.CurrentTime >= s.ActivityStartTime + s.ActivityDuration * 60
    \/ s.ChattingWith # "" /\ s.CurrentTime >= s.ChatEndTime

\* The plan phase went through determineActivity: the activity was set at
\* the current time, or the call aborted.
WentThroughDetermineActivity(before, after) ==
    \/ after.outcome # "ok"
    \/ after.ActivityStartTime = after.CurrentTime /\ ~after.ActivityPathSet

\* C24: in the plan phase the current activity is replaced through
\* determineActivity exactly when IsActivityFinished holds, which is when the
\* activity address is empty, or the persona is not chatting and the time has
\* reached ActivityStartTime + ActivityDuration, or it is chatting and the
\* time has reached ChatEndTime; and after a plan phase the activity address
\* of the persona is not empty.
C24_ReplacedWhenFinished ==
    day.plan.ran =>
        /\ IsActivityFinished(day.plan.planned) <=> ActivityIsOver(day.plan.planned)
        /\ WentThroughDetermineActivity(day.plan.planned, day.plan.started)
               <=> ActivityIsOver(day.plan.planned)
        /\ ~ActivityIsOver(day.plan.planned) => day.plan.started = day.plan.planned
        /\ day.p.outcome = "ok" => ~IsEmpty(day.p.ActivityAddress)

\* A plan phase found a chat that had reached its end and replaced it, after
\* an earlier one had left an activity under way alone.
C24_Witness ==
    /\ day.plan.ran
    /\ day.plan.planned.ChattingWith # ""
    /\ ActivityIsOver(day.plan.planned)
    /\ day.plan.started.outcome = "ok"
    /\ day.plan.started.ChattingWith = ""

(***************************************************************************)
(* Properties of ExecuteStep (SpecStep).  srv.mover is the persona whose   *)
(* Move ran last, srv.reaction the reaction its plan chose, srv.atStart    *)
(* the placement of the personas when the step began.                      *)
(***************************************************************************)

\* One Move of the second loop of ExecuteStep, returned or panicked.
MoveStep ==
    /\ srv.pc = "moving"
    /\ srv'.pc \in {"moving", "panicked"}
    /\ srv'.mover \in srv.todo

\* Persona n's state or memory differs across the step.
Touched(n) == srv'.personas[n] # srv.personas[n] \/ srv'.mem[n] # srv.mem[n]

\* C9 as stated: while the Move of one persona runs, no field of another
\* persona's state or memory changes, not even when the mover decides to
\* chat with it.
C9_OnlyOwnMove ==
    [][MoveStep => \A n \in Names(srv) \ {srv'.mover} : ~Touched(n)]_vars

\* C9 as amended: while the Move of one persona runs, the state or memory
\* of another persona changes only when that Move is a chat reaction with
\* that persona.
C9_OnlyOwnMoveOrChat ==
    [][MoveStep => \A n \in Names(srv) \ {srv'.mover} :
                      Touched(n) => srv'.reaction = [kind |-> "chat", with |-> n]]_vars

\* A Move has chatted: the target's chat fields name the mover while the
\* Moves of the step are still under way.
C9_Witness ==
    /\ srv.pc = "moving"
    /\ srv.reaction.kind = "chat"
    /\ srv.personas[srv.reaction.with].ChattingWith = srv.mover
    /\ srv.personas[srv.reaction.with].Chat = Conversation

\* C10: within ExecuteStep no persona's position (state.Position and
\* PersonaPositions) and no persona event on a tile changes until Move has
\* returned for every persona: during the Moves they are as at the start of
\* the step.
C10_CommitAfterAllMoves ==
    srv.pc \in {"moving", "panicked"} => Placement(srv) = srv.atStart

\* Every Move of the step has returned, one of them with a tile other than
\* the persona's own, and nothing has been applied yet.
C10_Witness ==
    /\ srv.pc = "moving"
    /\ srv.todo = {}
    /\ \E n \in Names(srv) : srv.movements[n].Tile # srv.personas[n].Position

\* The entry of a schedule whose interval of minutes since midnight holds
\* the time now (seconds); 0 when the schedule ends before it.
EntryAt(plans, now) ==
    LET is == {i \in 1..Len(plans) :
                  /\ SumDur(SubSeq(plans, 1, i - 1)) * 60 <= now
                  /\ now < SumDur(SubSeq(plans, 1, i)) * 60}
    IN  IF is = {} THEN 0 ELSE CHOOSE i \in is : TRUE

\* The last operation was a Move without a reaction in which
\* determineActivity installed an activity (SetActivity stamps the start
\* time with the clock of this Move).
Installed ==
    /\ day.lastOp = "move"
    /\ day.p.outcome = "ok"
    /\ day.p.ActivityStartTime = day.p.CurrentTime

\* C20: the entry determineActivity installs as the current activity is the
\* entry of the live DailySchedule, as it is after the decompositions of the
\* same call, whose interval of minutes since midnight contains the current
\* time.
C20_InstallsLiveEntry ==
    Installed =>
        LET i == EntryAt(day.p.DailySchedule, day.p.CurrentTime)
        IN  /\ i # 0
            /\ day.p.ActivityDescription = day.p.DailySchedule[i].Activity
            /\ day.p.ActivityDuration = day.p.DailySchedule[i].Duration

(***************************************************************************)
(* Properties of the text form of paths (SpecText).                        *)
(***************************************************************************)

\* The segments of p that are set, in order.
SetSegments(p) == SelectSeq(<<p.world, p.sector, p.arena, p.object>>, LAMBDA x : x # <<>>)

\* The strings of a sequence with ':' between them.
RECURSIVE JoinColon(_)
JoinColon(parts) ==
    IF Len(parts) = 1 THEN parts[1]
    ELSE parts[1] \o <<":">> \o JoinColon(Tail(parts))

\* How many ':'-separated parts a text has.
PartCount(str) == Cardinality({i \in 1..Len(str) : str[i] = ":"}) + 1

HasColon(str) == \E i \in 1..Len(str) : str[i] = ":"

\* C13: for every Path p whose set segments are a prefix of (world, sector,
\* arena, object) with 1 to 4 non-empty segments, ParsePath(p.ToString())
\* equals p and p.ToString() is the ':'-join of those segments; a string
\* with more than 4 ':'-separated parts is rejected by ParsePath.
C13_RoundTrip ==
    /\ txt.op = "format" =>
          /\ txt.back = txt.p
          /\ txt.str = JoinColon(SetSegments(txt.p))
    /\ (txt.op = "parse" /\ PartCount(txt.str) > 4) => txt.back = PathPanic

\* C13, amended: the same for every such Path none of whose segments
\* contains a ':'.
C13_RoundTripWithoutColon ==
    /\ (txt.op = "format" /\ \A i \in 1..Len(SetSegments(txt.p)) : ~HasColon(SetSegments(txt.p)[i])) =>
          /\ txt.back = txt.p
          /\ txt.str = JoinColon(SetSegments(txt.p))
    /\ (txt.op = "parse" /\ PartCount(txt.str) > 4) => txt.back = PathPanic

\* A path of four segments without ':' came back from its text.
C13_Witness ==
    /\ txt.op = "format"
    /\ Len(SetSegments(txt.p)) = 4
    /\ \A i \in 1..4 : ~HasColon(SetSegments(txt.p)[i])
    /\ txt.back = txt.p

\* C19: the address a wait reaction creates for a persona standing on (x, y)
\* gives execute exactly the target tile (x, y): GetArg() of it scans back
\* with WaitingArgFormat into the same two integers, and execute does not
\* fail on the waiting argument.
C19_WaitRoundTrip ==
    txt.op = "wait" => txt.target = [outcome |-> "ok", tiles |-> <<txt.pos>>]

(***************************************************************************)
(* Properties of the spatial memory (SpecSpatial).                         *)
(***************************************************************************)

\* path and q agree on every level above level.
SamePrefix(path, q, level) ==
    \A l \in PathLevelWorld..(level - 1) : PathGet(path, l) = PathGet(q, l)

\* The names at a level of the paths registered under the prefix of q.
RegisteredUnder(q, level) ==
    {PathGet(path, level) :
        path \in {r \in spatial.registered : PathGet(r, level) # "" /\ SamePrefix(r, q, level)}}

\* C12: after any sequence of Register calls, GetKnown(path, L) is exactly
\* the set of level-L names registered under the same higher-level prefix
\* as path: it depends on which paths were registered, not on their order
\* or number, and nothing registered is lost; no call fails.  A Path with
\* only the world set adds just the world entry.
C12_KnownIsRegistered ==
    /\ spatial.store.outcome = "ok"
    /\ \A q \in SpatialPaths, level \in PathLevelWorld..PathLevelObject :
          GetKnown(spatial.store, q, level) = RegisteredUnder(q, level)
    /\ \A w \in SpatialNames :
          spatial.registered = {NewPath(w, "", "", "")} =>
              spatial.store.worlds = MapPut(<<>>, w, <<>>)

\* An object path was registered after a path of its arena and a second
\* time: three calls, two paths, and the arena's objects are known.
C12_Witness ==
    /\ spatial.calls = 3
    /\ Cardinality(spatial.registered) = 2
    /\ \E path \in spatial.registered :
          /\ path.object # ""
          /\ GetKnown(spatial.store, path, PathLevelObject) = {path.object}
          /\ NewPath(path.world, path.sector, path.arena, "") \in spatial.registered

(***************************************************************************)
(* Properties of the choice of a target tile (SpecExe).                    *)
(***************************************************************************)

\* The candidates the loop went through that are reached from the persona's
\* tile.
ReachedTargets ==
    {t \in SeqRange(exe.choice.targetTiles) : Reached(exe.maze, exe.currTile, t)}

\* C18: when a reachable tile is among the candidates, the route execute
\* caches leads to a reachable candidate, one with the fewest moves among
\* them: a candidate that is not reached from the persona's tile is never
\* chosen while a reachable one is there.
C18_ClosestReachable ==
    (exe.op = "chosen" /\ ReachedTargets # {}) =>
        /\ exe.choice.closestTile \in ReachedTargets
        /\ \A t \in ReachedTargets :
              Moves(exe.maze, exe.currTile, exe.choice.closestTile)
                  <= Moves(exe.maze, exe.currTile, t)
        /\ Last(exe.choice.path) = exe.choice.closestTile
        /\ Len(exe.choice.PlannedPath)
              = Moves(exe.maze, exe.currTile, exe.choice.closestTile)

(***************************************************************************)
(* Properties of the retrieval (SpecRetrieve).                             *)
(***************************************************************************)

\* Node a is strictly above node b on each of the four components as the
\* retrieval extracts them: recency score, importance, relevance and the
\* valence magnitude clampAndFlip leaves.
Dominates(a, b) ==
    /\ ret.raw.recency[a] > ret.raw.recency[b]
    /\ ret.raw.importance[a] > ret.raw.importance[b]
    /\ ret.raw.relevance[a] > ret.raw.relevance[b]
    /\ ret.raw.valence[a] > ret.raw.valence[b]

\* C11: for one focal point and non-negative weights, a node a that strictly
\* dominates a node b on all four components has a final score that is not
\* lower than b's, and b is never among the returned nodes while a is left
\* out.
C11_DominanceKeepsRank ==
    ret.op = "retrieved" =>
        \A a \in DOMAIN ret.out, b \in DOMAIN ret.out :
            Dominates(a, b) =>
                /\ ret.out[a] >= ret.out[b]
                /\ ~(b \in ret.retrieved /\ a \notin ret.retrieved)

\* C16: the retrieval returns min(N, number of candidates) nodes, those of
\* the highest final score: no candidate left out has a strictly higher
\* final score than a node that is returned.
C16_HighestScoresReturned ==
    ret.op = "retrieved" =>
        /\ Cardinality(ret.retrieved)
              = IF Len(ret.nodes) < count THEN Len(ret.nodes) ELSE count
        /\ \A a \in DOMAIN ret.out \ ret.retrieved, b \in ret.retrieved :
              ~(ret.out[a] > ret.out[b])

\* The count a call asks for: the one of its last withRetrievalCount option,
\* 30 without an option.
AskedCount(retrievalOpts) ==
    IF retrievalOpts = <<>> THEN 30 ELSE retrievalOpts[Len(retrievalOpts)]

\* C27: the number of nodes kept for a focal point is configurable:
\* retrieveForFocalPoints called with withRetrievalCount(n) returns at most n
\* nodes, and at most 30 without the option.
C27_CountIsConfigurable ==
    ret.op = "retrieved" => Cardinality(ret.retrieved) <= AskedCount(ret.retrievalOpts)

\* The candidates in chronological order: the latest event ids, newest
\* first, then the latest thought ids, newest first, idle nodes removed.
Chronological == Candidates(ret.mem)

\* C28: the recency score of a node is decay^(rank + 1), rank being its
\* position from the front of the chronological newest-first id lists (events,
\* then thoughts, idle nodes removed) and not its position in the list sorted
\* by LastAccessed; so a more recently created node never has a lower recency
\* score than an older node of its type.
C28_RecencyByChronology ==
    ret.op = "retrieved" =>
        /\ \A r \in 1..Len(Chronological) :
               ret.raw.recency[Chronological[r]] = DecayPow(ret.decay, r)
        /\ \A a \in DOMAIN ret.raw.recency, b \in DOMAIN ret.raw.recency :
               (ret.mem.nodes[a].Type = ret.mem.nodes[b].Type /\ a > b) =>
                   ret.raw.recency[a] >= ret.raw.recency[b]

(***************************************************************************)
(* Properties of the node log (SpecLog).  ret.retrieved holds the nodes    *)
(* the last operation returned, if it was a retrieval.                     *)
(***************************************************************************)

\* The node keeps every field but LastAccessed.
SameButLastAccessed(before, after) ==
    [after EXCEPT !.LastAccessed = before.LastAccessed] = before

\* C29: the node log is append-only: over Add* calls and retrievals a node
\* keeps its id, its position and every field except LastAccessed;
\* LastAccessed changes only for a node among those a retrieveForFocalPoints
\* call returns, and is then the persona's current time, while the nodes not
\* returned keep theirs.
C29_AppendOnlyLog ==
    [][/\ Len(store'.nodes) >= Len(store.nodes)
       /\ store'.nodes[1] = store.nodes[1]
       /\ \A i \in 2..Len(store.nodes) :
             /\ SameButLastAccessed(store.nodes[i], store'.nodes[i])
             /\ IF ret'.op = "retrieved" /\ (i - 1) \in ret'.retrieved
                THEN store'.nodes[i].LastAccessed = ret.CurrentTime
                ELSE store'.nodes[i].LastAccessed = store.nodes[i].LastAccessed]_vars

\* A retrieval over more candidates than it returns has stamped some nodes
\* and left others, chats and idle nodes among them, alone.
C29_Witness ==
    /\ ret.op = "retrieved"
    /\ Cardinality(ret.retrieved) = count
    /\ \E i \in 2..Len(store.nodes) : store.nodes[i].LastAccessed < LogStartTime
    /\ \E i \in 2..Len(store.nodes) : store.nodes[i].Type = "chat"

(***************************************************************************)
(* Properties of percieve (SpecPer).  per.pass is the last call: where the *)
(* persona stood, the memory before it, the events it kept and the event   *)
(* nodes it appended.                                                      *)
(***************************************************************************)

\* The triple of the i-th newest event node of a memory.
NewestSPO(st, i) == SPOSummary(st.nodes[st.events[i] + 1])

\* The event list as it was when the k-th node of the last pass was about
\* to be appended, newest first.
EventsBefore(k) == Drop(store.events, Len(per.pass.memories) - k + 1)

\* C25: percieve never appends an event node whose triple equals the triple
\* of one of the Retention most recent event nodes, counting the nodes
\* appended earlier in the same pass; hence, with all events added by
\* percieve, any two event nodes at most Retention positions apart in the
\* newest-first event list have different triples.
C25_NoRecentRepeat ==
    /\ per.pass.ran =>
          \A k \in 1..Len(per.pass.memories) :
             LET node == store.nodes[per.pass.memories[k] + 1]
                 latest == Take(EventsBefore(k),
                                IF Len(EventsBefore(k)) < per.state.Retention
                                THEN Len(EventsBefore(k)) ELSE per.state.Retention)
             IN  /\ node.Type = "event"
                 /\ \A i \in 1..Len(latest) :
                       SPOSummary(store.nodes[latest[i] + 1]) # SPOSummary(node)
    /\ \A i, j \in 1..Len(store.events) :
          (i < j /\ j - i <= per.state.Retention) => NewestSPO(store, i) # NewestSPO(store, j)

\* A pass kept two events and appended one, the other having the triple of
\* the node just appended; and the triple of an older node, more than
\* Retention positions away, is in the list again.
C25_Witness ==
    /\ per.pass.ran
    /\ Len(per.pass.percievedEvents) = 2
    /\ Len(per.pass.memories) = 1
    /\ per.pass.before.events # <<>>
    /\ NewestSPO(per.pass.before, 1) # NewestSPO(store, 1)
    /\ \E i, j \in 1..Len(store.events) : i < j /\ NewestSPO(store, i) = NewestSPO(store, j)

\* The tiles of the vision square around the position of the last pass whose
\* arena-level Path is that of the persona's tile.
OwnArenaSquare ==
    {t \in Tiles(PerMaze) :
        /\ t.X - per.pass.Position.X \in (0 - per.state.VisionRadius)..per.state.VisionRadius
        /\ t.Y - per.pass.Position.Y \in (0 - per.state.VisionRadius)..per.state.VisionRadius
        /\ AtLevel(TilePath(t), PathLevelArena)
               = AtLevel(TilePath(per.pass.Position), PathLevelArena)}

\* The distance of the nearest of those tiles that holds the event.
Nearest(ev) ==
    LET ds == {EuclidianDistance(per.pass.Position, t) :
                  t \in {u \in OwnArenaSquare : ev \in per.tileEvents[u]}}
    IN  CHOOSE d \in ds : \A e \in ds : d <= e

\* C26: one pass appends at most AttentionBandwidth event nodes; each comes
\* from a tile inside the vision-radius square whose arena-level Path equals
\* that of the persona's own tile; an event present on several tiles is
\* considered once; and when more events are visible than the bandwidth,
\* the ones on nearer tiles are taken before farther ones.
C26_NearestInArena ==
    per.pass.ran =>
        LET visible == UNION {per.tileEvents[t] : t \in OwnArenaSquare}
            taken == per.pass.percievedEvents
            kept == {taken[i] : i \in 1..Len(taken)}
        IN  /\ Len(per.pass.memories) <= per.state.AttentionBandwidth
            /\ kept \subseteq visible
            /\ \A k \in 1..Len(per.pass.memories) :
                  \E ev \in visible :
                     SPOSummary(store.nodes[per.pass.memories[k] + 1])
                         = SPOSummary(Perceived(ev))
            /\ \A i, j \in 1..Len(taken) : i # j => taken[i] # taken[j]
            /\ Cardinality(visible) > per.state.AttentionBandwidth =>
                  Len(taken) = per.state.AttentionBandwidth
            /\ \A f \in kept \cap visible, ev \in visible \ kept : Nearest(f) <= Nearest(ev)

(***************************************************************************)
(* Properties of long-term planning (SpecLtp).                             *)
(***************************************************************************)

\* Whether plan called longTermPlanning in the last Move.
LtpRan == ltp.last.newDay # NewDayTypeNoNewDay

\* C31: long-term planning runs in a Move exactly when the stored time is
\* zero or its calendar date differs from the world time, so (the world
\* time never going back) no date is planned twice; identity revision runs
\* only on a day that is not the first; and right after long-term planning
\* OriginalDailySchedule equals DailySchedule and the store has one more
\* thought, the plan thought, which expires 30 days after the current time.
C31_PlannedOncePerDay ==
    /\ ltp.op # "idle" /\ ltp.last.ran =>
          /\ LtpRan <=> \/ ltp.last.stored = ZeroTime
                        \/ ltp.last.stored \div 86400 # ltp.last.currTime \div 86400
          /\ ltp.last.afterPlanning.revisions # ltp.last.before.revisions =>
                /\ ltp.last.stored # ZeroTime
                /\ LtpRan
          /\ LtpRan /\ ltp.last.afterPlanning.outcome = "ok" =>
                LET after == ltp.last.afterPlanning
                    n == Len(ltp.last.before.thoughts)
                IN  /\ after.OriginalDailySchedule = after.DailySchedule
                    /\ after.DailySchedule # <<>>
                    /\ Len(after.thoughts) = n + 1
                    /\ SubSeq(after.thoughts, 1, n) = ltp.last.before.thoughts
                    /\ after.thoughts[n + 1].Predicate = "plan"
                    /\ after.thoughts[n + 1].Created = ltp.last.currTime
                    /\ after.thoughts[n + 1].Expiration = ltp.last.currTime + 2592000
          /\ ~LtpRan => /\ ltp.last.afterPlanning.thoughts = ltp.last.before.thoughts
                        /\ ltp.last.afterPlanning.OriginalDailySchedule
                               = ltp.last.before.OriginalDailySchedule
    /\ ltp.op # "idle" =>
          \A i, j \in 1..Len(ltp.planned) : i # j => ltp.planned[i] # ltp.planned[j]

\* A second day has been planned, with an identity revision, less than a
\* day after the first, and the schedule of the day has since been
\* decomposed.
C31_Witness ==
    /\ ltp.op = "run" /\ ltp.last.ran
    /\ ltp.last.newDay = NewDayTypeNewDay
    /\ ltp.last.currTime - ltp.last.stored < 86400
    /\ ltp.p.revisions = 1
    /\ Len(ltp.planned) = 2
    /\ ltp.p.DailySchedule # ltp.p.OriginalDailySchedule

(***************************************************************************)
(* Properties of chats under short steps (SpecTalk).                       *)
(***************************************************************************)

\* reflect has stored the two thoughts about a chat of persona n that was
\* installed at time since.
ChatReflected(sv, n, since) ==
    \E th \in sv.mem[n] :
        /\ th.Type = "thought" /\ th.Subject = n /\ th.Object = "chat"
        /\ th.Created >= since

\* The chat fields of persona n are cleared by this step of the model.
ChatCleared(n) ==
    /\ srv.pc = "moving" /\ srv'.pc = "moving"
    /\ srv.personas[n].ChattingWith # ""
    /\ srv'.personas[n].ChattingWith = ""

\* C32: with steps of at most 10 seconds, the chat fields of a persona are
\* never cleared before a reflect phase of that persona has stored the
\* planning thought and the memo thought of that chat.
C32_ChatReflectedBeforeCleared ==
    [][\A n \in Names(srv) :
          ChatCleared(n) => ChatReflected(srv', n, srv.personas[n].ActivityStartTime)]_vars

(***************************************************************************)
(* Properties of iterativeGenerateConversation (SpecConv).                 *)
(***************************************************************************)

\* C33: the transcript has at most 16 utterances, its speakers alternate
\* starting with the initiator, and no utterance follows one that was
\* flagged as ending the conversation.
C33_AlternatingAndBounded ==
    conv.op # "idle" =>
        /\ Len(conv.chat) <= 16
        /\ Len(conv.ended) = Len(conv.chat)
        /\ \A k \in 1..Len(conv.chat) :
              /\ conv.chat[k].Speaker = IF k % 2 = 1 THEN conv.p ELSE conv.target
              /\ k < Len(conv.chat) => ~conv.ended[k]
        /\ conv.op = "run" => \A k \in 1..Len(conv.chat) : ~conv.ended[k]

\* A conversation of the full 16 utterances has returned.
C33_Witness ==
    /\ conv.op = "returned"
    /\ Len(conv.chat) = 16
    /\ ~conv.ended[16]
    /\ conv.duration > 0

(***************************************************************************)
(* Properties of the weights over LoadState and savePersonaState           *)
(* (SpecWeights).                                                          *)
(***************************************************************************)

\* C34: a loaded State has the four weights of the file it was loaded from,
\* each from its own field, and a State that was saved and loaded back has
\* the weights it had when it was saved.
C34_WeightsFromTheirFields ==
    wts.op = "loaded" =>
        /\ wts.state.RecencyWeight = wts.loadedFrom.recency_w
        /\ wts.state.ImportanceWeight = wts.loadedFrom.importance_w
        /\ wts.state.RelevanceWeight = wts.loadedFrom.relevance_w
        /\ wts.state.ValenceWeight = wts.loadedFrom.valence_w

(***************************************************************************)
(* Properties of a walking persona (SpecWalk).                             *)
(***************************************************************************)

\* Tiles a and b are the same or 4-neighbours.
SameOrNeighbour(a, b) ==
    \/ a = b
    \/ a.X = b.X /\ (a.Y = b.Y + 1 \/ b.Y = a.Y + 1)
    \/ a.Y = b.Y /\ (a.X = b.X + 1 \/ b.X = a.X + 1)

\* C35: the tile a Move returns is the persona's tile or a 4-neighbour of
\* it, and is a collision tile only when it is the tile the persona stands
\* on; the rest of the planned path goes on from there by 4-neighbours.
C35_StepsToNeighbours ==
    walk.op # "idle" /\ walk.last.ran =>
        /\ SameOrNeighbour(walk.last.from, walk.last.tile)
        /\ walk.maze.collisionInfo[<<walk.last.tile.Y, walk.last.tile.X>>]
              => walk.last.tile = walk.last.from
        /\ walk.s.Position = walk.last.tile

\* A persona has changed its activity in the middle of a planned path and
\* walked on to a neighbour tile, in a maze with a collision tile.
C35_Witness ==
    /\ walk.op = "run" /\ walk.last.ran
    /\ walk.moves >= 2
    /\ walk.last.changed /\ walk.last.replanned
    /\ walk.last.tile # walk.last.from
    /\ Len(walk.s.PlannedPath) > 0
    /\ \E c \in DOMAIN walk.maze.collisionInfo : walk.maze.collisionInfo[c]

(***************************************************************************)
(* Termination of the pathfinder (SpecPath).                               *)
(***************************************************************************)

\* C36: every call of Pathfind ends: the wavefront loop makes at most loopMax
\* passes, and the walk back never meets a pass that finds no neighbour with
\* k-1 (kind "hang"); it makes one pass per tile after the end tile, so the
\* path has as many tiles as the number the end tile holds (one when it
\* holds none).
C36_PathfindTerminates ==
    pfResult.kind # "none" =>
        /\ pfResult.kind # "hang"
        /\ wavePasses(maze, pfStart, pfEnd) \in 0..loopMax
        /\ LET k == distMaze(maze, pfStart, pfEnd)[<<pfEnd.Y, pfEnd.X>>]
           IN  /\ k <= loopMax + 1
               /\ Len(pfResult.path) = IF k = 0 THEN 1 ELSE k

\* The longest run there is: in a free corridor the wavefront has used all
\* its loopMax passes to number the end tile, and the walk back has made
\* loopMax passes to the start.
C36_Witness ==
    /\ maze \in CorridorMazes
    /\ pfResult.kind = "path"
    /\ wavePasses(maze, pfStart, pfEnd) = loopMax
    /\ Len(pfResult.path) = loopMax + 1
    /\ pfResult.path[1] = pfStart

(***************************************************************************)
(* Properties of chat and wait reactions (SpecTalk).                       *)
(***************************************************************************)

\* This step of the model is a whole Move that the program survived.
MoveDone == srv.pc = "moving" /\ srv'.pc = "moving" /\ srv'.todo # srv.todo

\* At the reaction of its Move persona n was free to react: it was in no
\* chat and not waiting, or this Move found its activity (a chat, a wait)
\* finished and determineActivity replaced it before the reaction.
FreeToReact(n) ==
    \/ IsActivityFinished([srv.personas[n] EXCEPT !.CurrentTime = srv.CurrentTime])
    \/ /\ srv.personas[n].ChattingWith = ""
       /\ ~HasState(srv.personas[n].ActivityAddress, "waiting")

\* C37: chat fields are installed only by a chat reaction, on the persona
\* that moves and its target, neither of them in a chat or waiting at that
\* moment; after that Move the two name each other and hold the same
\* ChatEndTime.  A persona that is in a chat or waiting starts no wait
\* reaction either.
C37_ChatOnlyBetweenFreePersonas ==
    [][MoveDone =>
        /\ \A n \in Names(srv) :
              (srv'.personas[n].ChattingWith # ""
                  /\ srv'.personas[n].ChattingWith # srv.personas[n].ChattingWith)
              => /\ srv'.reaction.kind = "chat"
                 /\ n \in {srv'.mover, srv'.reaction.with}
        /\ srv'.reaction.kind = "chat" =>
              /\ srv'.reaction.with \in Names(srv) \ {srv'.mover}
              /\ FreeToReact(srv'.mover)
              /\ srv.personas[srv'.reaction.with].ChattingWith = ""
              /\ ~HasState(srv.personas[srv'.reaction.with].ActivityAddress, "waiting")
              /\ srv'.personas[srv'.mover].ChattingWith = srv'.reaction.with
              /\ srv'.personas[srv'.reaction.with].ChattingWith = srv'.mover
              /\ srv'.personas[srv'.mover].ChatEndTime
                    = srv'.personas[srv'.reaction.with].ChatEndTime
        /\ srv'.reaction.kind = "wait" => FreeToReact(srv'.mover)
    ]_vars

\* Two personas are in a chat with each other that has not ended, both
\* naming the other and holding the same ChatEndTime, and the third persona
\* has made its Move after the chat began.
C37_Witness ==
    /\ srv.pc = "moving"
    /\ \E a \in Names(srv), b \in Names(srv) :
          /\ a # b
          /\ srv.mover \in Names(srv) \ {a, b}
          /\ srv.personas[a].ChattingWith = b
          /\ srv.personas[b].ChattingWith = a
          /\ srv.personas[a].ChatEndTime = srv.personas[b].ChatEndTime
          /\ srv.personas[a].ChatEndTime > srv.CurrentTime

(***************************************************************************)
(* Properties of the chat cooldown (SpecCool).                             *)
(***************************************************************************)

\* C38: a persona whose plan has started a chat had no positive
\* ChattingWithBuffer entry for the target when it decided; the chat has set
\* its entry to 800 and the cleanup of that plan has lowered it to 799; and
\* when it had started a chat with that target before, with no reset by
\* skipSleep since, that was at least 800 of its steps earlier.  A plan that
\* starts no chat lowers every entry by exactly 1.
C38_CooldownBetweenChats ==
    cool.pc = "idle" =>
        \A n \in Names(cool) :
            LET l == cool.last[n]
                buffer == cool.personas[n].ChattingWithBuffer
            IN  /\ l.kind = "chat" =>
                      /\ ~(l.with \in DOMAIN l.before /\ l.before[l.with] > 0)
                      /\ buffer[l.with] = ChatCooldown - 1
                      /\ (l.prevInit > 0 /\ ~l.resetBetween)
                            => cool.lastInit[n] - l.prevInit >= ChatCooldown
                /\ (l.kind = "move" /\ cool.last[l.with].kind # "chat") =>
                      /\ DOMAIN buffer = DOMAIN l.before
                      /\ \A k \in DOMAIN buffer : buffer[k] = l.before[k] - 1

\* Ann has started her second chat with Bob, 800 of her steps after the
\* first, with no skipSleep in between.
C38_Witness ==
    /\ cool.pc = "idle"
    /\ cool.last["Ann"].kind = "chat"
    /\ cool.last["Ann"].prevInit > 0
    /\ ~cool.last["Ann"].resetBetween
    /\ cool.lastInit["Ann"] - cool.last["Ann"].prevInit = ChatCooldown

\* An ExecuteStep of the two personas that ran to its end.
CoolStepDone == cool.pc = "idle" /\ cool'.pc = "idle" /\ cool' # cool

\* Every persona's current entry of its DailySchedule is a sleeping one.
AllAsleep(c) ==
    \A n \in Names(c) :
        LET asleep(s, idx) == /\ idx < Len(s.DailySchedule)
                              /\ ContainsSleeping(s.DailySchedule[idx + 1].Activity)
        IN  asleep(c.personas[n], GetDailyPlanIndex(c.personas[n]))

\* C39: every ExecuteStep that runs to its end adds 1 to Step and leaves
\* CurrentTime later than it was, by TimeStep or by more; it is by more only
\* when skipSleep has moved the clock, which it does only when every
\* persona's current schedule entry is a sleeping one, and then to a later
\* time that is 3 time steps before the earliest wake-up time, so at least
\* 3 time steps before every persona's.
C39_ClockMovesForward ==
    [][CoolStepDone =>
          LET skippedTo == cool'.CurrentTime - cool.TimeStep
          IN  /\ cool'.Step = cool.Step + 1
              /\ cool'.TimeStep = cool.TimeStep
              /\ cool'.CurrentTime > cool.CurrentTime
              /\ skippedTo >= cool.CurrentTime
              /\ skippedTo # cool.CurrentTime =>
                    /\ AllAsleep(cool)
                    /\ \A n \in Names(cool) :
                          skippedTo + step * cool.TimeStep <= WakeUpTime(cool.personas[n])
                    /\ \E n \in Names(cool) :
                          skippedTo + step * cool.TimeStep = WakeUpTime(cool.personas[n])]_vars

\* Two personas with different schedules after a step in which skipSleep
\* moved the clock: the clock is ahead of the steps taken, 3 time steps
\* before Bob wakes up and more than that before Ann does.
C39_Witness ==
    /\ cool.pc = "idle"
    /\ cool.Step > 0
    /\ cool.CurrentTime > cool.Step * cool.TimeStep
    /\ AllAsleep(cool)
    /\ cool.CurrentTime - cool.TimeStep + step * cool.TimeStep = WakeUpTime(cool.personas["Bob"])
    /\ WakeUpTime(cool.personas["Ann"]) > WakeUpTime(cool.personas["Bob"])

==============================================================================
